---- MODULE Spec2Model ----
(***************************************************************************)
(* Verification model of MovieAutoCutter's range merger, filter-graph      *)
(* builder and render backend selection (processor.py).                    *)
(* Times are integer milliseconds; a range is a pair <<start, end>>.       *)
(***************************************************************************)
EXTENDS Integers, Sequences, FiniteSets, TLC

(* ------------------------------ bounds -------------------------------- *)
\* longest input list given to merge_and_optimize_ranges
MaxRanges == 3
\* largest time stamp (ms) of the enumerated merge inputs
MaxTime == 4
\* largest enumerated min_duration_ms / gap_ms
MaxParam == 2

\* largest time stamp, in seconds, of the enumerated processing plans
MaxPlanTime == 7
\* largest time stamp, in seconds, of the short plans of a render job
MaxJobTime == 3
\* largest enumerated pre/post margin, in seconds
MaxMargin == 2
\* largest enumerated audio speed factor, in tenths
MaxFactorTenths == 2600
\* longest enumerated processing plan of a render job
MaxPlanRanges == 30
\* longest enumerated encoder priority list
MaxEncoders == 2
\* longest enumerated chunk sequence of an audio track
MaxChunks == 4
\* largest enumerated chunk length, in ms
MaxChunkMs == 2
\* largest suffix k of a file name_k.ext present in the output folder
MaxFiles == 2
\* largest number of failed analyses after which a file is still dropped
MaxAnalysisErrors == 1

VARIABLES
    \* merge_and_optimize_ranges: its arguments, its result, the number of passes
    ranges, min_duration_ms, gap_ms, merged, passes,
    \* _process_chunk / cut_or_speedup_video: their arguments
    ranges_to_process, processing_mode, pre_cut_seconds, post_cut_seconds,
    video_duration_ms, has_audio, config,
    \* cut_or_speedup_video: its arguments speedup_factor and speedup_volume
    \* (rationals <<num, den>>)
    speedup_factor, speedup_volume,
    \* _process_chunk: the outcome of builder.build(), NoGraph before it ran
    graph,
    \* _build_atempo_chain: its argument (a rational <<num, den>>), its result
    atempo_factor, atempo_chain,
    \* cut_or_speedup_video: the backend states entered so far, the message boxes
    \* shown, the external tool runs <<step, outcome>>, the position in the
    \* encoder priority list, whether the output file was written
    history, signals, ffmpeg_runs, codec_index, output_written,
    \* _process_with_moviepy: the write_videofile attempts <<codec, succeeded>>
    encode_log,
    \* _process_with_moviepy: the clips handed to concatenate_videoclips
    clip_list,
    \* the output folder: the suffixes k of the files present in it (0 stands for
    \* the source's own name, k for name_k.ext), the same when the job started,
    \* the suffix chosen for output_path (NoPath before), the suffixes written to
    files, files_at_start, output_path, writes,
    \* gui.MainApplication and business_logic: the is_processing flag, the
    \* AnalysisResult handed to on_analysis_complete, the log of the last accepted
    \* drop, of the functions called for it and of its analysis tasks that failed, the
    \* detection mode, the static ranges the detector finds
    is_processing, analysis_result, app_log, cut_mode, static_ranges,
    \* whether the interface thread is inside an event handler that has not
    \* returned yet
    ui_busy,
    \* video_tools.detect_central_static_frames: the frame differences the
    \* iterator yields (sample k belongs to frame number k), CAP_PROP_FPS as a
    \* rational, CAP_PROP_FRAME_COUNT, the motion threshold
    motion_diffs, fps, total_frames, movement_thresh,
    \* video_tools: the function called, the cv2.VideoCapture it opens itself,
    \* the one _iterate_frames_for_diff opens, the frames not read yet, the
    \* frame number of the iterator
    video_call, probe_handle, frame_handle, frames_left, frames_read,
    \* gui.MainApplication: self.file_path (NoFile for None), the jobs submitted
    \* or called and not ended yet, the last event the interface handled
    file_path, active_jobs, last_event,
    \* analyze_media: the state of the two pool tasks, what each returned, the
    \* progress reports <<value, label>> in the order they were made
    audio_task, video_task, future_audio, future_video, progress_log,
    \* _FFmpegFilterBuilder: a builder object and the last call made on it
    builder, last_call,
    \* audio_tools: the chunks make_chunks cuts the audio into (rms and dBFS of
    \* each), the chunk length, len(audio) in ms, the silence threshold, the
    \* result of analyze_audio_dB, the result of detect_silence_based_on_dB
    chunks, chunk_length_ms, audio_len_ms, silence_thresh_dB, loudness_stats,
    silence_ranges,
    \* the control position of the specification's run
    pc

merge_vars == <<ranges, min_duration_ms, gap_ms, merged, passes>>
job_vars == <<ranges_to_process, processing_mode, pre_cut_seconds, post_cut_seconds,
              video_duration_ms, has_audio, config, speedup_factor, speedup_volume>>
atempo_vars == <<atempo_factor, atempo_chain>>
file_vars == <<files, files_at_start, output_path, writes>>
run_vars == <<history, signals, ffmpeg_runs, codec_index, output_written, encode_log,
              file_vars>>
app_vars == <<is_processing, analysis_result, app_log, cut_mode, static_ranges, ui_busy>>
handle_vars == <<video_call, probe_handle, frame_handle, frames_left, frames_read>>
video_vars == <<motion_diffs, fps, total_frames, movement_thresh, handle_vars>>
task_vars == <<audio_task, video_task, future_audio, future_video, progress_log>>
builder_vars == <<builder, last_call>>
busy_vars == <<file_path, active_jobs, last_event>>
unit_vars == <<video_vars, task_vars, builder_vars, busy_vars>>
audio_vars == <<chunks, chunk_length_ms, audio_len_ms, silence_thresh_dB,
                loudness_stats, silence_ranges>>
vars == <<merge_vars, job_vars, graph, atempo_vars, run_vars, clip_list, audio_vars, unit_vars,
          app_vars, pc>>

Max(a, b) == IF a >= b THEN a ELSE b
Min(a, b) == IF a <= b THEN a ELSE b

(* ------------------- processor.merge_and_optimize_ranges -------------- *)

\* sorted(ranges, key=lambda x: x[0]) is a stable sort on the start only:
\* a range is placed before the first range whose start is strictly greater.
RECURSIVE InsertByStart(_, _)
InsertByStart(r, s) ==
    IF s = <<>> THEN <<r>>
    ELSE IF r[1] < Head(s)[1] THEN <<r>> \o s
    ELSE <<Head(s)>> \o InsertByStart(r, Tail(s))

\* a mutant of SortByStart: the input is taken in the order given
SortNone(rs) == rs

RECURSIVE SortByStart(_)
SortByStart(rs) ==
    IF rs = <<>> THEN <<>>
    ELSE InsertByStart(rs[Len(rs)], SortByStart(SubSeq(rs, 1, Len(rs) - 1)))

\* a mutant of ShouldMerge: the gap left out of the comparison
ShouldMergeIgnoringGap(next_start, current_end, gap) == next_start < current_end

\* a mutant of ShouldMerge: the comparison made non-strict
ShouldMergeNonStrict(next_start, current_end, gap) == next_start <= current_end + gap

\* line 32: if next_start < current_end + gap_ms
ShouldMerge(next_start, current_end, gap) == next_start < current_end + gap

\* a mutant of MeetsMinDuration: a range as long as the minimum is dropped
MeetsMinDurationStrict(current_start, current_end, min_duration) == current_end - current_start > min_duration

\* lines 37 and 41: if current_end - current_start >= min_duration_ms
MeetsMinDuration(current_start, current_end, min_duration) ==
    current_end - current_start >= min_duration

\* merged.append((current_start, current_end)) under the minimum-duration test
EmitIfLongEnough(out, current_start, current_end, min_duration) ==
    IF MeetsMinDuration(current_start, current_end, min_duration)
    THEN Append(out, <<current_start, current_end>>)
    ELSE out

\* a mutant of MergeLoop: the last accumulated range is never flushed
RECURSIVE MergeLoopNoFlush(_, _, _, _, _, _)
MergeLoopNoFlush(rest, current_start, current_end, out, min_duration, gap) ==
    IF rest = <<>>
    THEN out
    ELSE LET next_start == Head(rest)[1]
             next_end == Head(rest)[2]
         IN  IF ShouldMerge(next_start, current_end, gap)
             THEN MergeLoopNoFlush(Tail(rest), current_start, Max(current_end, next_end),
                                   out, min_duration, gap)
             ELSE MergeLoopNoFlush(Tail(rest), next_start, next_end,
                                   EmitIfLongEnough(out, current_start, current_end,
                                                    min_duration),
                                   min_duration, gap)

\* the for loop of lines 31-39 followed by the final emission of lines 41-42
RECURSIVE MergeLoop(_, _, _, _, _, _)
MergeLoop(rest, current_start, current_end, out, min_duration, gap) ==
    IF rest = <<>>
    THEN EmitIfLongEnough(out, current_start, current_end, min_duration)
    ELSE LET next_start == Head(rest)[1]
             next_end == Head(rest)[2]
         IN  IF ShouldMerge(next_start, current_end, gap)
             THEN MergeLoop(Tail(rest), current_start, Max(current_end, next_end),
                            out, min_duration, gap)
             ELSE MergeLoop(Tail(rest), next_start, next_end,
                            EmitIfLongEnough(out, current_start, current_end, min_duration),
                            min_duration, gap)

\* a mutant of merge_and_optimize_ranges: the minimum-duration filter applied to
\* the input ranges before merging instead of to the accumulated ranges
MergeFilterInputsFirst(rs, min_duration, gap) ==
    LET kept == SelectSeq(rs, LAMBDA r : r[2] - r[1] >= min_duration)
        sorted_ranges == SortByStart(kept)
    IN  IF kept = <<>> THEN <<>>
        ELSE MergeLoop(Tail(sorted_ranges), sorted_ranges[1][1], sorted_ranges[1][2],
                       <<>>, 0, gap)

merge_and_optimize_ranges(rs, min_duration, gap) ==
    IF rs = <<>> THEN <<>>
    ELSE LET sorted_ranges == SortByStart(rs)
         IN  MergeLoop(Tail(sorted_ranges), sorted_ranges[1][1], sorted_ranges[1][2],
                       <<>>, min_duration, gap)

(* ------------------- processor._FFmpegFilterBuilder ------------------- *)

\* A speed factor is a rational <<num, den>> with den > 0; a formatted number
\* ("{:.4f}", and the literal "100.0") is an integer count of ten-thousandths.
TenThousandths == 10000

\* a mutant of Format4: the digits after the fourth decimal are cut off
Format4Truncated(x) == (x[1] * TenThousandths) \div x[2]

\* "{x:.4f}" of the rational x: the nearest multiple of 1/10000
Format4(x) == (2 * x[1] * TenThousandths + x[2]) \div (2 * x[2])

\* the literal of "atempo=100.0"
AtempoCap == 100

\* a mutant of AtempoLoop: the stage for the remainder is left out
RECURSIVE AtempoLoopNoRemainder(_, _)
AtempoLoopNoRemainder(factor, filters) ==
    IF factor[1] > AtempoCap * factor[2]
    THEN AtempoLoopNoRemainder(<<factor[1], factor[2] * AtempoCap>>,
                               Append(filters, AtempoCap * TenThousandths))
    ELSE filters

\* lines 107-109: while factor > 100.0: append "atempo=100.0", factor /= 100.0;
\* then if factor > 1.0: append "atempo={factor:.4f}"
RECURSIVE AtempoLoop(_, _)
AtempoLoop(factor, filters) ==
    IF factor[1] > AtempoCap * factor[2]
    THEN AtempoLoop(<<factor[1], factor[2] * AtempoCap>>,
                    Append(filters, AtempoCap * TenThousandths))
    ELSE IF factor[1] > factor[2]
         THEN Append(filters, Format4(factor))
         ELSE filters

\* _build_atempo_chain: the list of atempo stages (joined by "," in the code)
build_atempo_chain(factor) ==
    IF factor[1] <= factor[2] THEN <<>> ELSE AtempoLoop(factor, <<>>)

\* _FFmpegFilterBuilder.__init__
NewBuilder(audio) ==
    [has_audio |-> audio, video_filters |-> <<>>, audio_filters |-> <<>>,
     v_concat_inputs |-> <<>>, a_concat_inputs |-> <<>>, stream_counter |-> 0]

\* a mutant of add_clip: the test of line 75 is left out
AddClipUnguarded(b, start_ms, end_ms) ==
    [b EXCEPT
        !.video_filters = Append(@, [kind |-> "PASSTHROUGH", start |-> start_ms,
                                     end |-> end_ms, label |-> b.stream_counter]),
        !.v_concat_inputs = Append(@, b.stream_counter),
        !.audio_filters = IF b.has_audio
                          THEN Append(@, [kind |-> "PASSTHROUGH", start |-> start_ms,
                                          end |-> end_ms, label |-> b.stream_counter])
                          ELSE @,
        !.a_concat_inputs = IF b.has_audio THEN Append(@, b.stream_counter) ELSE @,
        !.stream_counter = @ + 1]

\* add_clip: a passthrough segment [start_ms, end_ms) labelled v<n> (and a<n>)
add_clip(b, start_ms, end_ms) ==
    IF start_ms >= end_ms THEN b
    ELSE [b EXCEPT
            !.video_filters = Append(@, [kind |-> "PASSTHROUGH", start |-> start_ms,
                                         end |-> end_ms, label |-> b.stream_counter]),
            !.v_concat_inputs = Append(@, b.stream_counter),
            !.audio_filters = IF b.has_audio
                              THEN Append(@, [kind |-> "PASSTHROUGH", start |-> start_ms,
                                              end |-> end_ms, label |-> b.stream_counter])
                              ELSE @,
            !.a_concat_inputs = IF b.has_audio THEN Append(@, b.stream_counter) ELSE @,
            !.stream_counter = @ + 1]

\* a mutant of add_speedup_clip: the audio segment is left out
AddSpeedupClipVideoOnly(b, start_ms, end_ms, factor, volume) ==
    IF start_ms >= end_ms THEN b
    ELSE [b EXCEPT
            !.video_filters = Append(@, [kind |-> "TRANSFORM", start |-> start_ms,
                                         end |-> end_ms, label |-> b.stream_counter,
                                         factor |-> factor]),
            !.v_concat_inputs = Append(@, b.stream_counter),
            !.stream_counter = @ + 1]

\* add_speedup_clip: a transform segment [start_ms, end_ms) with setpts=PTS/factor,
\* and for the audio the atempo chain followed by volume={volume:.4f}
add_speedup_clip(b, start_ms, end_ms, factor, volume) ==
    IF start_ms >= end_ms THEN b
    ELSE [b EXCEPT
            !.video_filters = Append(@, [kind |-> "TRANSFORM", start |-> start_ms,
                                         end |-> end_ms, label |-> b.stream_counter,
                                         factor |-> factor]),
            !.v_concat_inputs = Append(@, b.stream_counter),
            !.audio_filters = IF b.has_audio
                              THEN Append(@, [kind |-> "TRANSFORM", start |-> start_ms,
                                              end |-> end_ms, label |-> b.stream_counter,
                                              atempo |-> build_atempo_chain(factor),
                                              volume |-> Format4(volume)])
                              ELSE @,
            !.a_concat_inputs = IF b.has_audio THEN Append(@, b.stream_counter) ELSE @,
            !.stream_counter = @ + 1]

\* build: ("", "", 0) without segments, else the filters followed by the concat node
build(b) ==
    IF b.stream_counter = 0
    THEN [video_fc |-> <<>>, audio_fc |-> <<>>, stream_count |-> 0]
    ELSE [video_fc |-> Append(b.video_filters,
                              [kind |-> "CONCAT", inputs |-> b.v_concat_inputs,
                               n |-> b.stream_counter]),
          audio_fc |-> IF b.has_audio /\ b.a_concat_inputs # <<>>
                       THEN Append(b.audio_filters,
                                   [kind |-> "CONCAT", inputs |-> b.a_concat_inputs,
                                    n |-> b.stream_counter])
                       ELSE <<>>,
          stream_count |-> b.stream_counter]

(* ------------------------ processor._process_chunk -------------------- *)

\* the two values of processing_mode the interface offers: cut and speed-up
CUT == "CUT"
SPEEDUP == "SPEEDUP"

\* a mutant of NextLastEnd: the next passthrough starts after the post margin
NextLastEndWithPost(end_ms, proc_end) == proc_end

\* line 156: last_end_ms = end_ms
NextLastEnd(end_ms, proc_end) == end_ms

\* line 145: proc_start = start_ms - pre_cut_ms
ProcStart(start_ms, pre_cut_ms) == start_ms - pre_cut_ms

\* a mutant of ClipEndBefore: the passthrough runs up to the range itself (the
\* defect the comment of lines 148-149 reports as fixed)
ClipEndBeforeUnfixed(start_ms, proc_start) == start_ms

\* line 150: the passthrough before a range ends at the margin-applied start
ClipEndBefore(start_ms, proc_start) == proc_start

\* line 146: proc_end = end_ms + post_cut_ms
ProcEnd(end_ms, post_cut_ms) == end_ms + post_cut_ms

\* the for loop of lines 143-156 and the last add_clip of line 159
RECURSIVE ChunkLoop(_, _, _, _, _, _, _, _, _)
ChunkLoop(b, rest, last_end_ms, mode, pre_ms, post_ms, duration_ms, factor, volume) ==
    IF rest = <<>>
    THEN add_clip(b, last_end_ms, duration_ms)
    ELSE LET start_ms == Head(rest)[1]
             end_ms == Head(rest)[2]
             proc_start == ProcStart(start_ms, pre_ms)
             proc_end == ProcEnd(end_ms, post_ms)
             b1 == add_clip(b, last_end_ms, ClipEndBefore(start_ms, proc_start))
             b2 == IF mode = SPEEDUP
                   THEN add_speedup_clip(b1, proc_start, proc_end, factor, volume)
                   ELSE b1
         IN  ChunkLoop(b2, Tail(rest), NextLastEnd(end_ms, proc_end), mode,
                       pre_ms, post_ms, duration_ms, factor, volume)

\* lines 135-161 of _process_chunk: the builder is filled and built; the speed
\* factor and the volume come from the configuration dictionary
ChunkGraph(plan, mode, pre_seconds, post_seconds, duration_ms, audio, cfg) ==
    build(ChunkLoop(NewBuilder(audio), plan, 0, mode,
                    pre_seconds * 1000, post_seconds * 1000, duration_ms,
                    cfg.speedup_factor, <<cfg.speedup_volume_percent, 100>>))

\* the segments of a built graph: its video filters without the concat node
Segments(g) == SelectSeq(g.video_fc, LAMBDA f : f.kind # "CONCAT")

(* --------------- inputs of the merge specification -------------------- *)

\* every range <<start, end>> with 0 <= start < end <= MaxTime
GridRanges == {r \in (0..MaxTime) \X (0..MaxTime) : r[1] < r[2]}

\* every list of at most MaxRanges grid ranges, in any order, duplicates included
GridInputs == UNION {[1..n -> GridRanges] : n \in 0..MaxRanges}

\* the inputs of the worked examples of the specification (section 8)
ExampleInputs ==
    { << <<0, 100>>, <<150, 300>> >>,
      << <<0, 100>>, <<300, 400>> >>,
      << <<0, 100>>, <<200, 300>> >>,
      << <<0, 30>> >>,
      << <<0, 30>>, <<40, 70>> >> }

\* <<min_duration_ms, gap_ms>>: the grid and the parameters of the examples
MergeParams == ((0..MaxParam) \X (0..MaxParam)) \cup {<<50, 100>>}

\* the variables of the merger while another operation is under study
MergeIdle ==
    /\ ranges = <<>> /\ min_duration_ms = 0 /\ gap_ms = 0
    /\ merged = <<>> /\ passes = 0

\* config.py lines 44-45: min_silence_duration_ms and min_static_duration_ms
DefaultMinDurationMs == 500
\* processor.py line 21: the default of gap_ms
DefaultGapMs == 100
\* business_logic.py line 153: the minimum duration given to the last merge
CombinedMinDurationMs == 100

\* config.default_config(): the entries the detection and render stages read
DefaultConfig ==
    [use_ffmpeg_direct |-> TRUE, speedup_factor |-> <<5, 1>>,
     speedup_volume_percent |-> 50, encoder_priority |-> <<1, 2, 3>>,
     min_silence_duration_ms |-> DefaultMinDurationMs,
     min_static_duration_ms |-> DefaultMinDurationMs]

\* output_path before ensure_unique_filename was called
NoPath == -1

NoGraph == [video_fc |-> <<>>, audio_fc |-> <<>>, stream_count |-> 0]

\* no render job has started
RunIdle ==
    /\ history = <<>> /\ signals = <<>> /\ ffmpeg_runs = <<>>
    /\ codec_index = 0 /\ output_written = FALSE
    /\ encode_log = <<>>
    /\ files = {} /\ files_at_start = {} /\ output_path = NoPath /\ writes = {}
    /\ clip_list = <<>>

NoResult == [audio_data |-> "none", video_data |-> "none", error |-> "none"]

\* the variables of the application while one function is under study
AppIdle ==
    /\ is_processing = FALSE /\ analysis_result = NoResult /\ app_log = <<>>
    /\ cut_mode = "AUDIO" /\ static_ranges = <<>>
    /\ ui_busy = FALSE

\* the variables of a render job while another operation is under study
JobIdle ==
    /\ ranges_to_process = <<>> /\ processing_mode = CUT
    /\ pre_cut_seconds = 0 /\ post_cut_seconds = 0
    /\ video_duration_ms = 0 /\ has_audio = FALSE
    /\ config = DefaultConfig
    /\ speedup_factor = <<5, 1>> /\ speedup_volume = <<1, 1>>
    /\ graph = NoGraph
    /\ RunIdle /\ AppIdle

AtempoIdle == atempo_factor = <<1, 1>> /\ atempo_chain = <<>>

NoStats == [min |-> 0, max |-> 0, mean |-> <<0, 1>>, samples |-> <<>>]

\* the variables of the audio tools while another operation is under study
AudioIdle ==
    /\ chunks = <<>> /\ chunk_length_ms = 1 /\ audio_len_ms = 0
    /\ silence_thresh_dB = 0
    /\ loudness_stats = NoStats /\ silence_ranges = <<>>

\* the variables of the static-frame detector while another operation is under
\* study
\* no capture was created
HandleIdle ==
    /\ video_call = "none" /\ probe_handle = "none" /\ frame_handle = "none"
    /\ frames_left = 0 /\ frames_read = 0

VideoIdle ==
    /\ motion_diffs = <<>> /\ fps = <<30, 1>> /\ total_frames = 0
    /\ movement_thresh = 0
    /\ HandleIdle

\* no analysis task was submitted
TaskIdle ==
    /\ audio_task = [at |-> "none", i |-> 0] /\ video_task = [at |-> "none", i |-> 0]
    /\ future_audio = "none" /\ future_video = "none"
    /\ progress_log = <<>>

NoCall == [kind |-> "none", start_ms |-> 0, end_ms |-> 0]

\* no builder object is under study
BuilderIdle == builder = NewBuilder(FALSE) /\ last_call = NoCall

\* gui.MainApplication.__init__, line 55: self.file_path = None
NoFile == 0

\* no file was dropped
BusyIdle == file_path = NoFile /\ active_jobs = 0 /\ last_event = "none"

UnitIdle == VideoIdle /\ TaskIdle /\ BuilderIdle /\ BusyIdle

MergeInit ==
    /\ ranges \in GridInputs \cup ExampleInputs
    /\ \E p \in MergeParams : min_duration_ms = p[1] /\ gap_ms = p[2]
    /\ merged = <<>>
    /\ passes = 0
    /\ JobIdle /\ AtempoIdle /\ AudioIdle /\ UnitIdle
    /\ pc = "merge"

\* the first call: merged = merge_and_optimize_ranges(ranges, d, g)
Merge ==
    /\ pc = "merge" /\ passes = 0
    /\ merged' = merge_and_optimize_ranges(ranges, min_duration_ms, gap_ms)
    /\ passes' = 1
    /\ UNCHANGED <<ranges, min_duration_ms, gap_ms, job_vars, audio_vars, unit_vars, clip_list, app_vars, graph, atempo_vars, run_vars, pc>>

\* the output is given back as the input of a second call with the same parameters
Remerge ==
    /\ pc = "merge" /\ passes = 1
    /\ ranges' = merged
    /\ merged' = merge_and_optimize_ranges(merged, min_duration_ms, gap_ms)
    /\ passes' = 2
    /\ UNCHANGED <<min_duration_ms, gap_ms, job_vars, audio_vars, unit_vars, clip_list, app_vars, graph, atempo_vars, run_vars, pc>>

NextMerge == Merge \/ Remerge

SpecMerge == MergeInit /\ [][NextMerge]_vars

(* --------------- inputs of the filter-graph specification ------------- *)

RECURSIVE SortedSeqOf(_)
SortedSeqOf(S) ==
    IF S = {} THEN <<>>
    ELSE LET m == CHOOSE x \in S : \A y \in S : x <= y
         IN  <<m>> \o SortedSeqOf(S \ {m})

\* the plan whose range boundaries, in seconds, are the elements of S
PlanOf(S) ==
    LET bs == SortedSeqOf(S)
    IN  [i \in 1..(Len(bs) \div 2) |-> <<bs[2 * i - 1] * 1000, bs[2 * i] * 1000>>]

\* the valid plans of a source of D seconds, as process_video hands them over:
\* non-empty, ascending, the ranges apart from each other and inside [0, D]
PlansWithin(D) ==
    {PlanOf(S) : S \in {T \in SUBSET (0..D) : T # {} /\ Cardinality(T) % 2 = 0}}

\* the end-to-end example of the specification (section 8): a 60 s source,
\* plan [(10000, 20000)], pre margin 2 s, post margin 1 s, cut mode
ExampleJob ==
    /\ ranges_to_process = << <<10000, 20000>> >>
    /\ video_duration_ms = 60000
    /\ pre_cut_seconds = 2 /\ post_cut_seconds = 1
    /\ processing_mode = CUT

GridJob(T) ==
    /\ \E D \in 1..T :
          /\ video_duration_ms = D * 1000
          /\ ranges_to_process \in PlansWithin(D)
    /\ pre_cut_seconds \in 0..MaxMargin
    /\ post_cut_seconds \in 0..MaxMargin
    /\ processing_mode \in {CUT, SPEEDUP}

ChunkInit ==
    /\ (GridJob(MaxPlanTime) \/ ExampleJob)
    /\ has_audio \in BOOLEAN
    /\ config = DefaultConfig
    /\ speedup_factor = <<5, 1>> /\ speedup_volume = <<1, 1>>
    /\ graph = NoGraph
    /\ RunIdle /\ AppIdle /\ MergeIdle /\ AtempoIdle /\ AudioIdle /\ UnitIdle
    /\ pc = "chunk_input"

\* _process_chunk up to builder.build() (lines 135-161)
ProcessChunkBuild ==
    /\ pc = "chunk_input"
    /\ graph' = ChunkGraph(ranges_to_process, processing_mode, pre_cut_seconds,
                           post_cut_seconds, video_duration_ms, has_audio, config)
    /\ pc' = "chunk_built"
    /\ UNCHANGED <<merge_vars, job_vars, audio_vars, unit_vars, clip_list, app_vars, atempo_vars, run_vars>>

NextChunk == ProcessChunkBuild

SpecChunk == ChunkInit /\ [][NextChunk]_vars

(* ------------------- processor._process_with_moviepy ------------------ *)

\* the for loop of lines 198-210 and the tail clip of lines 211-212: the clips
\* MoviePy is asked to concatenate, with the margins clamped
RECURSIVE MoviepyLoop(_, _, _, _, _, _, _, _, _)
MoviepyLoop(clips, rest, last_end_ms, mode, pre_cut_ms, post_cut_ms, duration_ms, factor, volume) ==
    IF rest = <<>>
    THEN IF last_end_ms < duration_ms
         THEN Append(clips, [kind |-> "PASSTHROUGH", start |-> last_end_ms,
                             end |-> duration_ms])
         ELSE clips
    ELSE LET start_ms == Head(rest)[1]
             end_ms == Head(rest)[2]
             proc_start_with_precut == Max(last_end_ms, start_ms - pre_cut_ms)
             proc_end_with_postcut == Min(duration_ms, end_ms + post_cut_ms)
             c1 == IF proc_start_with_precut > last_end_ms
                   THEN Append(clips, [kind |-> "PASSTHROUGH", start |-> last_end_ms,
                                       end |-> proc_start_with_precut])
                   ELSE clips
             c2 == IF mode = SPEEDUP /\ proc_end_with_postcut > proc_start_with_precut
                   THEN Append(c1, [kind |-> "TRANSFORM",
                                    start |-> proc_start_with_precut,
                                    end |-> proc_end_with_postcut,
                                    factor |-> factor, volume |-> volume])
                   ELSE c1
         IN  MoviepyLoop(c2, Tail(rest), end_ms, mode, pre_cut_ms, post_cut_ms,
                         duration_ms, factor, volume)

\* lines 192-212: speedx and volumex take the function's arguments
\* speedup_factor and speedup_volume (lines 205 and 207)
MoviepyClips(plan, mode, pre_seconds, post_seconds, duration_ms, factor, volume) ==
    MoviepyLoop(<<>>, plan, 0, mode, pre_seconds * 1000, post_seconds * 1000,
                duration_ms, factor, volume)

(* ------------------- processor.cut_or_speedup_video ------------------- *)

MAX_CONCAT_STREAMS == 50

\* a mutant of StreamCount: one segment for each range and the tail
StreamCountPerRange(n) == n + 1

\* a mutant of StreamCount: the tail segment is not counted
StreamCountNoTail(n) == 2 * n

\* lines 243 and 246: stream_count = len(ranges_to_process) * 2 + 1
StreamCount(n) == 2 * n + 1

\* line 248: if stream_count > MAX_CONCAT_STREAMS
ExceedsCap(plan) == StreamCount(Len(plan)) > MAX_CONCAT_STREAMS

\* the job ends: the terminal backend state is recorded
EndJob(terminal) ==
    /\ pc' = "end"
    /\ history' = Append(history, terminal)

\* _process_with_moviepy is entered (line 269 from the except branch, line 272
\* from the selector)
EnterSafePath ==
    /\ pc' = "safe_open"
    /\ history' = Append(history, "SAFE_PATH")

\* utils.ensure_unique_filename, lines 119-123: the while loop; the name
\* tried is the suffix 0 (the file name itself) and then counter = 1, 2, ...
RECURSIVE UniqueLoop(_, _, _)
UniqueLoop(existing, unique_filename, counter) ==
    IF unique_filename \in existing
    THEN UniqueLoop(existing, counter, counter + 1)
    ELSE unique_filename

\* a mutant of ensure_unique_filename: name_1.ext is taken without a second look
EnsureUniqueOnce(existing) == IF 0 \in existing THEN 1 ELSE 0

\* utils.ensure_unique_filename(directory, filename)
ensure_unique_filename(existing) == UniqueLoop(existing, 0, 1)

\* lines 238-240 raise: the source cannot be opened while the stream count is
\* estimated; the exception leaves cut_or_speedup_video and process_video shows
\* its error box
EstimateOpenFails ==
    /\ pc = "estimate" /\ config.use_ffmpeg_direct
    /\ signals' = Append(signals, "ERROR_UNEXPECTED")
    /\ EndJob("FAILED")
    /\ UNCHANGED <<merge_vars, job_vars, audio_vars, unit_vars, clip_list, app_vars, graph, atempo_vars,
                   ffmpeg_runs, codec_index, output_written, encode_log, file_vars>>

\* lines 248-251: the estimate exceeds the cap, MoviePy mode is forced
EstimateForcesSafe ==
    /\ pc = "estimate" /\ config.use_ffmpeg_direct
    /\ ExceedsCap(ranges_to_process)
    /\ EnterSafePath
    /\ UNCHANGED <<merge_vars, job_vars, audio_vars, unit_vars, clip_list, app_vars, graph, atempo_vars,
                   signals, ffmpeg_runs, codec_index, output_written, encode_log,
                   file_vars>>

\* lines 253-254: the estimate is within the cap, FFmpeg is called directly
EstimateChoosesFast ==
    /\ pc = "estimate" /\ config.use_ffmpeg_direct
    /\ ~ExceedsCap(ranges_to_process)
    /\ pc' = "fast_prepare"
    /\ history' = Append(history, "FAST_PATH")
    /\ UNCHANGED <<merge_vars, job_vars, audio_vars, unit_vars, clip_list, app_vars, graph, atempo_vars,
                   signals, ffmpeg_runs, codec_index, output_written, encode_log,
                   file_vars>>

\* lines 270-272: use_ffmpeg_direct is off
EstimateFlagOff ==
    /\ pc = "estimate" /\ ~config.use_ffmpeg_direct
    /\ EnterSafePath
    /\ UNCHANGED <<merge_vars, job_vars, audio_vars, unit_vars, clip_list, app_vars, graph, atempo_vars,
                   signals, ffmpeg_runs, codec_index, output_written, encode_log,
                   file_vars>>

\* lines 256-261: the output path is chosen (line 259) and the source is opened
\* for its duration; an exception is caught at line 266 and MoviePy takes over
FastPrepare ==
    /\ pc = "fast_prepare"
    /\ output_path' = ensure_unique_filename(files)
    /\ \E opened \in BOOLEAN :
          IF opened
          THEN pc' = "fast_chunk" /\ UNCHANGED history
          ELSE EnterSafePath
    /\ UNCHANGED <<merge_vars, job_vars, audio_vars, unit_vars, clip_list, app_vars, graph, atempo_vars,
                   signals, ffmpeg_runs, codec_index, output_written, encode_log,
                   files, files_at_start, writes>>

\* the success branch of lines 263-265: progress "done" and the success box
FastSucceeds ==
    /\ signals' = Append(signals, "INFO_DONE")
    /\ EndJob("DONE")

\* _process_chunk, lines 131-162: the source is opened, the graph is built; with
\* no segment at all the function returns True without running the tool
FastChunk ==
    /\ pc = "fast_chunk"
    /\ \E opened \in BOOLEAN :
          IF opened
          THEN LET g == ChunkGraph(ranges_to_process, processing_mode,
                                   pre_cut_seconds, post_cut_seconds,
                                   video_duration_ms, has_audio, config)
               IN  /\ graph' = g
                   /\ IF g.stream_count = 0
                      THEN FastSucceeds
                      ELSE pc' = "fast_video" /\ UNCHANGED <<history, signals>>
          ELSE EnterSafePath /\ UNCHANGED <<graph, signals>>
    /\ UNCHANGED <<merge_vars, job_vars, audio_vars, unit_vars, clip_list, app_vars, atempo_vars,
                   ffmpeg_runs, codec_index, output_written, encode_log, file_vars>>

\* _run_ffmpeg_command (lines 45-57) as called by _process_chunk: the tool ends
\* with status 0 ("ok"); or with another status ("nonzero"): the error box is
\* shown, False is returned, _process_chunk returns False and the job ends; or
\* the call raises something else ("raise", the tool cannot be started): the
\* exception reaches line 266 and MoviePy takes over
RunFfmpeg(step, onSuccess) ==
    \E outcome \in {"ok", "nonzero", "raise"} :
        /\ ffmpeg_runs' = Append(ffmpeg_runs, <<step, outcome>>)
        /\ CASE outcome = "ok" -> onSuccess
             [] outcome = "nonzero" ->
                    /\ signals' = Append(signals, "ERROR_ENCODE")
                    /\ EndJob("FAILED")
                    /\ UNCHANGED output_written
             [] outcome = "raise" ->
                    /\ EnterSafePath
                    /\ UNCHANGED <<signals, output_written>>

\* a mutant of FastVideo: the mux follows the video pass at once
FastVideoThenMux ==
    /\ pc = "fast_video"
    /\ RunFfmpeg("video",
                 /\ pc' = "fast_mux"
                 /\ UNCHANGED <<history, signals, output_written>>)
    /\ UNCHANGED <<merge_vars, job_vars, audio_vars, unit_vars, clip_list, app_vars, graph, atempo_vars,
                   codec_index, encode_log, file_vars>>

\* lines 167-168: the video pass, written to the temporary folder
FastVideo ==
    /\ pc = "fast_video"
    /\ RunFfmpeg("video",
                 /\ pc' = IF has_audio /\ graph.audio_fc # <<>>
                          THEN "fast_audio" ELSE "fast_mux"
                 /\ UNCHANGED <<history, signals, output_written>>)
    /\ UNCHANGED <<merge_vars, job_vars, audio_vars, unit_vars, clip_list, app_vars, graph, atempo_vars,
                   codec_index, encode_log, file_vars>>

\* lines 169-171: the audio pass, written to the temporary folder
FastAudio ==
    /\ pc = "fast_audio"
    /\ RunFfmpeg("audio",
                 /\ pc' = "fast_mux"
                 /\ UNCHANGED <<history, signals, output_written>>)
    /\ UNCHANGED <<merge_vars, job_vars, audio_vars, unit_vars, clip_list, app_vars, graph, atempo_vars,
                   codec_index, encode_log, file_vars>>

\* lines 172-176 and 263-265: the mux writes output_path (ffmpeg -y), then
\* success; a mux that ends with an error may leave a file behind, a tool that
\* cannot be started writes nothing
FastMux ==
    /\ pc = "fast_mux"
    /\ RunFfmpeg("mux", output_written' = TRUE /\ FastSucceeds)
    /\ LET outcome == ffmpeg_runs'[Len(ffmpeg_runs')][2]
       IN  CASE outcome = "ok" ->
                    /\ files' = files \cup {output_path}
                    /\ writes' = writes \cup {output_path}
             [] outcome = "nonzero" ->
                    \E left \in BOOLEAN :
                        /\ files' = IF left THEN files \cup {output_path} ELSE files
                        /\ writes' = writes \cup {output_path}
             [] outcome = "raise" -> UNCHANGED <<files, writes>>
    /\ UNCHANGED <<merge_vars, job_vars, audio_vars, unit_vars, clip_list, app_vars, graph, atempo_vars,
                   codec_index, encode_log, files_at_start, output_path>>

\* a mutant of SafeOpen: when MoviePy cannot open the source, the FFmpeg path is
\* tried again
SafeOpenRetriesFast ==
    /\ pc = "safe_open"
    /\ \E opened \in BOOLEAN :
          IF opened
          THEN /\ pc' = "safe_clips"
               /\ output_path' = ensure_unique_filename(files)
               /\ UNCHANGED <<history, signals>>
          ELSE /\ pc' = "fast_prepare"
               /\ history' = Append(history, "FAST_PATH")
               /\ UNCHANGED <<signals, output_path>>
    /\ UNCHANGED <<merge_vars, job_vars, audio_vars, unit_vars, clip_list, app_vars, graph, atempo_vars,
                   ffmpeg_runs, codec_index, output_written, encode_log, files,
                   files_at_start, writes>>

\* lines 180-190: MoviePy opens the source, or shows the open error and returns;
\* then the output path is chosen (line 190)
SafeOpen ==
    /\ pc = "safe_open"
    /\ \E opened \in BOOLEAN :
          IF opened
          THEN /\ pc' = "safe_clips"
               /\ output_path' = ensure_unique_filename(files)
               /\ UNCHANGED <<history, signals>>
          ELSE /\ signals' = Append(signals, "ERROR_OPEN")
               /\ EndJob("FAILED")
               /\ UNCHANGED output_path
    /\ UNCHANGED <<merge_vars, job_vars, audio_vars, unit_vars, clip_list, app_vars, graph, atempo_vars,
                   ffmpeg_runs, codec_index, output_written, encode_log, files,
                   files_at_start, writes>>

\* lines 192-219: the clips are prepared; without clips the function returns
\* after a log line only; without encoders the error box follows at once
SafeClips ==
    /\ pc = "safe_clips"
    /\ clip_list' = MoviepyClips(ranges_to_process, processing_mode,
                                 pre_cut_seconds, post_cut_seconds,
                                 video_duration_ms, speedup_factor, speedup_volume)
    /\ LET clips == clip_list'
       IN  IF clips = <<>>
           THEN EndJob("ENDED") /\ UNCHANGED <<signals, codec_index>>
           ELSE IF config.encoder_priority = <<>>
           THEN /\ signals' = Append(signals, "ERROR_ENCODE")
                /\ EndJob("FAILED")
                /\ UNCHANGED codec_index
           ELSE /\ pc' = "safe_encode"
                /\ codec_index' = 1
                /\ UNCHANGED <<history, signals>>
    /\ UNCHANGED <<merge_vars, job_vars, audio_vars, unit_vars, app_vars, graph, atempo_vars,
                   ffmpeg_runs, output_written, encode_log, file_vars>>

\* a mutant of SafeEncode: after a failed attempt the list is started over
\* instead of moving on to the next encoder
SafeEncodeRepeatsFirst ==
    /\ pc = "safe_encode"
    /\ \E encoded \in BOOLEAN :
          /\ encode_log' = Append(encode_log,
                                  <<config.encoder_priority[1], encoded>>)
          /\ writes' = writes \cup {output_path}
          /\ IF encoded
             THEN /\ output_written' = TRUE
                  /\ files' = files \cup {output_path}
                  /\ signals' = Append(signals, "INFO_DONE")
                  /\ EndJob("DONE")
                  /\ UNCHANGED codec_index
             ELSE /\ \E left \in BOOLEAN :
                        files' = IF left THEN files \cup {output_path} ELSE files
                  /\ IF codec_index = Len(config.encoder_priority)
                     THEN /\ signals' = Append(signals, "ERROR_ENCODE")
                          /\ EndJob("FAILED")
                          /\ UNCHANGED <<codec_index, output_written>>
                     ELSE /\ codec_index' = codec_index + 1
                          /\ UNCHANGED <<pc, history, signals, output_written>>
    /\ UNCHANGED <<merge_vars, job_vars, audio_vars, unit_vars, clip_list, app_vars, graph, atempo_vars,
                   ffmpeg_runs, files_at_start, output_path>>

\* lines 220-230: one write_videofile attempt to output_path with the next
\* encoder of the list; the first success ends the loop with the success box,
\* the failure of the last encoder ends it with the error box; a failed attempt
\* may leave a file behind
SafeEncode ==
    /\ pc = "safe_encode"
    /\ \E encoded \in BOOLEAN :
          /\ encode_log' = Append(encode_log,
                                  <<config.encoder_priority[codec_index], encoded>>)
          /\ writes' = writes \cup {output_path}
          /\ IF encoded
             THEN /\ output_written' = TRUE
                  /\ files' = files \cup {output_path}
                  /\ signals' = Append(signals, "INFO_DONE")
                  /\ EndJob("DONE")
                  /\ UNCHANGED codec_index
             ELSE /\ \E left \in BOOLEAN :
                        files' = IF left THEN files \cup {output_path} ELSE files
                  /\ IF codec_index = Len(config.encoder_priority)
                     THEN /\ signals' = Append(signals, "ERROR_ENCODE")
                          /\ EndJob("FAILED")
                          /\ UNCHANGED <<codec_index, output_written>>
                     ELSE /\ codec_index' = codec_index + 1
                          /\ UNCHANGED <<pc, history, signals, output_written>>
    /\ UNCHANGED <<merge_vars, job_vars, audio_vars, unit_vars, clip_list, app_vars, graph, atempo_vars,
                   ffmpeg_runs, files_at_start, output_path>>

(* --------------- inputs of the render job specification --------------- *)

\* a plan of n one-second ranges, one second apart
UniformPlan(n) == [i \in 1..n |-> <<(2 * i - 1) * 1000, 2 * i * 1000>>]

LongJob ==
    /\ \E n \in 1..MaxPlanRanges :
          /\ ranges_to_process = UniformPlan(n)
          /\ video_duration_ms = (2 * n + 1) * 1000
    /\ pre_cut_seconds = 0 /\ post_cut_seconds = 0
    /\ processing_mode \in {CUT, SPEEDUP}

JobConfigs ==
    {[DefaultConfig EXCEPT !.use_ffmpeg_direct = f,
                           !.encoder_priority = [i \in 1..k |-> i]] :
        f \in BOOLEAN, k \in 1..MaxEncoders}

\* the speedup_factor and speedup_volume a caller passes: the values the
\* configuration holds (5.0 and 50 percent), or other ones
JobArguments == {<< <<5, 1>>, <<50, 100>> >>, << <<2, 1>>, <<100, 100>> >>}

Init ==
    /\ (GridJob(MaxJobTime) \/ ExampleJob \/ LongJob)
    /\ has_audio \in BOOLEAN
    /\ config \in JobConfigs
    /\ \E a \in JobArguments : speedup_factor = a[1] /\ speedup_volume = a[2]
    /\ graph = NoGraph
    /\ history = <<"ESTIMATE">> /\ signals = <<>> /\ ffmpeg_runs = <<>>
    /\ codec_index = 0 /\ output_written = FALSE
    /\ encode_log = <<>> /\ clip_list = <<>>
    /\ files = {} /\ files_at_start = {} /\ output_path = NoPath /\ writes = {}
    /\ AppIdle
    /\ MergeIdle /\ AtempoIdle /\ AudioIdle /\ UnitIdle
    /\ pc = "estimate"

Next ==
    \/ EstimateOpenFails \/ EstimateForcesSafe \/ EstimateChoosesFast
    \/ EstimateFlagOff
    \/ FastPrepare \/ FastChunk \/ FastVideo \/ FastAudio \/ FastMux
    \/ SafeOpen \/ SafeClips \/ SafeEncode

Spec == Init /\ [][Next]_vars

(* ------------- gui.MainApplication and business_logic ----------------- *)

\* a mutant of analyze_media: only the audio task's result is looked at
AnalyzeMediaAudioOnly(audio_ret, video_ret) ==
    IF audio_ret = "exception"
    THEN [audio_data |-> "none", video_data |-> "none", error |-> "exception"]
    ELSE [audio_data |-> audio_ret, video_data |-> video_ret, error |-> "none"]

\* business_logic.analyze_media, lines 62-71: each task returns its data or the
\* exception it caught (lines 99 and 111); an exception among the two results is
\* raised again and becomes AnalysisResult(error=e), without data
analyze_media(audio_ret, video_ret) ==
    IF audio_ret = "exception" \/ video_ret = "exception"
    THEN [audio_data |-> "none", video_data |-> "none", error |-> "exception"]
    ELSE [audio_data |-> audio_ret, video_data |-> video_ret, error |-> "none"]

Count(seq, x) == Cardinality({i \in 1..Len(seq) : seq[i] = x})

\* gui.on_drop, lines 109-121: ignored while is_processing or when the file does
\* not exist; otherwise is_processing is set and the analysis task is submitted
OnDrop ==
    /\ pc = "idle" /\ ~ui_busy /\ ~is_processing
    /\ Count(signals, "ERROR_ANALYSIS") <= MaxAnalysisErrors
    /\ \E exists \in BOOLEAN :
          IF exists
          THEN /\ is_processing' = TRUE
               /\ analysis_result' = NoResult
               /\ app_log' = <<"on_drop">>
               /\ pc' = "analysis"
          ELSE UNCHANGED <<is_processing, analysis_result, app_log, pc>>
    /\ UNCHANGED <<merge_vars, job_vars, graph, atempo_vars, run_vars, audio_vars, unit_vars, clip_list,
                   cut_mode, static_ranges, ui_busy>>

\* gui.run_analysis_task, lines 123-126, with analyze_media and its two tasks:
\* the audio task returns data, the empty result of a source without audio (or
\* without ffmpeg), or the exception it caught; the video task data or its
\* exception
RunAnalysis ==
    /\ pc = "analysis"
    /\ \E audio_ret \in {"data", "empty", "exception"}, video_ret \in {"data", "exception"} :
          /\ analysis_result' = analyze_media(audio_ret, video_ret)
          /\ app_log' = app_log \o <<"analyze_media">>
                \o (IF audio_ret = "exception" THEN <<"audio_task_failed">> ELSE <<>>)
                \o (IF video_ret = "exception" THEN <<"video_task_failed">> ELSE <<>>)
    /\ pc' = "analysis_done"
    /\ UNCHANGED <<merge_vars, job_vars, graph, atempo_vars, run_vars, audio_vars, unit_vars, clip_list,
                   is_processing, cut_mode, static_ranges, ui_busy>>

\* gui.on_analysis_complete, lines 128-135: with an error the error box is
\* shown and is_processing is cleared; otherwise the ThresholdWindow is opened
OnAnalysisComplete ==
    /\ pc = "analysis_done" /\ ~ui_busy
    /\ IF analysis_result.error # "none"
       THEN /\ signals' = Append(signals, "ERROR_ANALYSIS")
            /\ is_processing' = FALSE
            /\ pc' = "idle"
            /\ UNCHANGED app_log
       ELSE /\ app_log' = Append(app_log, "ThresholdWindow")
            /\ pc' = "window"
            /\ UNCHANGED <<signals, is_processing>>
    /\ UNCHANGED <<merge_vars, job_vars, graph, atempo_vars, audio_vars, unit_vars, clip_list, history,
                   ffmpeg_runs, codec_index, output_written, encode_log, file_vars,
                   analysis_result, cut_mode, static_ranges, ui_busy>>

\* the values the window's mode variable can hold (gui.py lines 232 and 276,
\* config.py line 38): audio, video, both
CutModes == {"AUDIO", "VIDEO", "BOTH"}

\* the settings of the speed-up frame: the values of the configuration, which
\* the sliders show when the window opens, or other ones
WindowSpeedups == {<< <<5, 1>>, 50>>, << <<2, 1>>, 100>>}

\* ThresholdWindow.execute_processing, lines 317-337: an entry that is not a
\* number gives the input error box and the window stays; otherwise the
\* settings are taken from the window, update_config_and_save (lines 304-315)
\* writes them to the configuration and start_processing_task is called in
\* the handler itself (line 336), which calls process_video (line 140)
WindowExecute ==
    /\ pc = "window" /\ ~ui_busy
    /\ \E valid \in BOOLEAN :
          IF valid
          THEN /\ \E m \in CutModes, pm \in {CUT, SPEEDUP} :
                     /\ cut_mode' = m /\ processing_mode' = pm
                     /\ \E w \in IF pm = SPEEDUP THEN WindowSpeedups
                                  ELSE {<<config.speedup_factor, config.speedup_volume_percent>>} :
                            /\ speedup_factor' = w[1]
                            /\ speedup_volume' = <<w[2], 100>>
                            /\ config' = [config EXCEPT !.speedup_factor = w[1],
                                                        !.speedup_volume_percent = w[2]]
               /\ app_log' = Append(app_log, "process_video")
               /\ ui_busy' = TRUE
               /\ pc' = "process_video"
               /\ UNCHANGED signals
          ELSE /\ Count(signals, "ERROR_INPUT") < 1
               /\ signals' = Append(signals, "ERROR_INPUT")
               /\ UNCHANGED <<cut_mode, processing_mode, app_log, pc, ui_busy,
                              speedup_factor, speedup_volume, config>>
    /\ UNCHANGED <<merge_vars, ranges_to_process, pre_cut_seconds, post_cut_seconds,
                   video_duration_ms, has_audio, graph, atempo_vars,
                   audio_vars, unit_vars, clip_list, history, ffmpeg_runs, codec_index, output_written,
                   encode_log, file_vars, is_processing, analysis_result,
                   static_ranges>>

\* ThresholdWindow.on_close, lines 293-297
WindowClose ==
    /\ pc = "window" /\ ~ui_busy
    /\ is_processing' = FALSE
    /\ pc' = "idle"
    /\ UNCHANGED <<merge_vars, job_vars, graph, atempo_vars, run_vars, audio_vars, unit_vars, clip_list,
                   analysis_result, app_log, cut_mode, static_ranges, ui_busy>>

\* process_video, lines 130-146: silence is looked for in the audio and both
\* modes when the source has audio, static ranges in the video and both modes
DetectedSilence(m, audio, silence) ==
    IF m \in {"AUDIO", "BOTH"} /\ audio THEN silence ELSE <<>>

DetectedStatic(m, static) == IF m \in {"VIDEO", "BOTH"} THEN static ELSE <<>>

\* lines 151-152: merged_silence + merged_static, each list merged with the
\* minimum duration the configuration holds for its source
MergedSources(silence, static, cfg) ==
    merge_and_optimize_ranges(silence, cfg.min_silence_duration_ms, DefaultGapMs)
      \o merge_and_optimize_ranges(static, cfg.min_static_duration_ms, DefaultGapMs)

\* process_video, lines 148-153: the merged plan of the detection mode
PlanFor(m, silence, static, cfg) ==
    CASE m = "AUDIO" ->
            merge_and_optimize_ranges(silence, cfg.min_silence_duration_ms, DefaultGapMs)
      [] m = "VIDEO" ->
            merge_and_optimize_ranges(static, cfg.min_static_duration_ms, DefaultGapMs)
      [] OTHER ->
            merge_and_optimize_ranges(MergedSources(silence, static, cfg),
                                      CombinedMinDurationMs, DefaultGapMs)

\* a mutant of PlanIsEmpty: the empty plan is not recognised
PlanIsEmptyNever(plan) == FALSE

\* line 154: if not ranges_to_process
PlanIsEmpty(plan) == plan = <<>>

\* process_video, lines 126-173: the detection may raise, which ends the job
\* with the error box of line 173; an empty merged plan ends it with the
\* information box of line 155; otherwise cut_or_speedup_video is called
ProcessVideo ==
    /\ pc = "process_video"
    /\ \E detected \in BOOLEAN :
          IF detected
          THEN LET plan == PlanFor(cut_mode,
                                   DetectedSilence(cut_mode, has_audio, silence_ranges),
                                   DetectedStatic(cut_mode, static_ranges), config)
               IN  /\ ranges_to_process' = plan
                   /\ IF PlanIsEmpty(plan)
                      THEN /\ signals' = Append(signals, "INFO_NOTHING")
                           /\ app_log' = Append(app_log, "merged")
                           /\ pc' = "end"
                           /\ UNCHANGED history
                      ELSE /\ app_log' = app_log \o <<"merged", "cut_or_speedup_video">>
                           /\ history' = <<"ESTIMATE">>
                           /\ pc' = "estimate"
                           /\ UNCHANGED signals
          ELSE /\ signals' = Append(signals, "ERROR_UNEXPECTED")
               /\ pc' = "end"
               /\ UNCHANGED <<ranges_to_process, app_log, history>>
    /\ UNCHANGED <<merge_vars, processing_mode, pre_cut_seconds, post_cut_seconds,
                   video_duration_ms, has_audio, config, graph, atempo_vars,
                   audio_vars, unit_vars, clip_list, ffmpeg_runs, codec_index, output_written, encode_log,
                   file_vars, is_processing, analysis_result, cut_mode,
                   static_ranges, ui_busy, speedup_factor, speedup_volume>>

\* gui.start_processing_task, lines 144-146: the finally clause; then
\* execute_processing destroys the window (line 337) and the handler returns
FinishTask ==
    /\ pc = "end" /\ is_processing
    /\ is_processing' = FALSE
    /\ ui_busy' = FALSE
    /\ pc' = "finished"
    /\ UNCHANGED <<merge_vars, job_vars, graph, atempo_vars, run_vars, audio_vars, unit_vars, clip_list,
                   analysis_result, app_log, cut_mode, static_ranges>>

(* --------------- inputs of the application specification -------------- *)

\* what the silence detector finds in a source of two seconds: nothing, one
\* range too short to be kept, the whole source, two short ranges that merge
\* into a long one, two separate ranges
SilenceCandidates ==
    {<<>>, << <<0, 400>> >>, << <<0, 2000>> >>, << <<0, 300>>, <<350, 700>> >>,
     << <<200, 900>>, <<1400, 2000>> >>}

\* what the static-frame detector finds in it: nothing, a short range, a long
\* range
StaticCandidates == {<<>>, << <<1000, 1300>> >>, << <<500, 1500>> >>}

\* the detections of the sources of two seconds
ShortDetections ==
    {<<s, <<>>>> : s \in SilenceCandidates} \cup {<<<<>>, t>> : t \in StaticCandidates}
      \cup {<< << <<0, 400>> >>, << <<1000, 1300>> >> >>,
            << << <<200, 900>>, <<1400, 2000>> >>, << <<500, 1500>> >> >>}

ShortSource ==
    /\ video_duration_ms = 2000
    /\ \E d \in ShortDetections : silence_ranges = d[1] /\ static_ranges = d[2]

\* a source with 25 silent ranges, enough to exceed the stream cap
LongSource ==
    /\ video_duration_ms = 51000
    /\ silence_ranges = UniformPlan(25)
    /\ static_ranges = <<>>

AppInit ==
    /\ (ShortSource \/ LongSource)
    /\ has_audio \in BOOLEAN
    /\ config \in {[DefaultConfig EXCEPT !.use_ffmpeg_direct = f] : f \in BOOLEAN}
    /\ files \in SUBSET (0..MaxFiles) /\ files_at_start = files
    /\ ranges_to_process = <<>> /\ processing_mode = CUT
    /\ pre_cut_seconds = 0 /\ post_cut_seconds = 0
    /\ graph = NoGraph
    /\ history = <<>> /\ signals = <<>> /\ ffmpeg_runs = <<>>
    /\ codec_index = 0 /\ output_written = FALSE /\ encode_log = <<>>
    /\ output_path = NoPath /\ writes = {} /\ clip_list = <<>>
    /\ speedup_factor = config.speedup_factor
    /\ speedup_volume = <<config.speedup_volume_percent, 100>>
    /\ is_processing = FALSE /\ analysis_result = NoResult /\ app_log = <<>>
    /\ cut_mode = "AUDIO" /\ ui_busy = FALSE
    /\ chunks = <<>> /\ chunk_length_ms = 1 /\ audio_len_ms = 0
    /\ silence_thresh_dB = 0 /\ loudness_stats = NoStats
    /\ MergeIdle /\ AtempoIdle /\ UnitIdle
    /\ pc = "idle"

NextApp ==
    \/ OnDrop \/ RunAnalysis \/ OnAnalysisComplete
    \/ WindowExecute \/ WindowClose \/ ProcessVideo \/ FinishTask
    \/ Next

SpecApp == AppInit /\ [][NextApp]_vars

(* --------------- inputs of the atempo specification ------------------- *)

\* speed factors in tenths, from 0.0 up to MaxFactorTenths / 10
TenthFactors == {<<n, 10>> : n \in 0..MaxFactorTenths}

\* speed factors with more than four decimals, around 1.0 and around the lower
\* end 1.1 of the slider of gui.py line 284 (the entry next to it takes any number)
FineFactors == {<<n, 30000>> : n \in 29990..33100}

\* speed factors that need two divisions by the cap
LargeFactors == {<<10001, 1>>, <<25000, 1>>, <<100000, 1>>}

AtempoInit ==
    /\ atempo_factor \in TenthFactors \cup FineFactors \cup LargeFactors
    /\ atempo_chain = <<>>
    /\ MergeIdle /\ JobIdle /\ AudioIdle /\ UnitIdle
    /\ pc = "atempo_input"

\* one call of _build_atempo_chain(factor)
BuildAtempoChain ==
    /\ pc = "atempo_input"
    /\ atempo_chain' = build_atempo_chain(atempo_factor)
    /\ pc' = "atempo_built"
    /\ UNCHANGED <<merge_vars, job_vars, audio_vars, unit_vars, clip_list, app_vars, graph, atempo_factor, run_vars>>

NextAtempo == BuildAtempoChain

SpecAtempo == AtempoInit /\ [][NextAtempo]_vars

(* ------------------------- audio_tools -------------------------------- *)

\* the value a chunk without energy is given (audio_tools.py line 22), which is
\* also the bound of line 29
FLOOR_DB == -90

\* lines 22-25: the dBFS of a chunk with rms > 0, the floor value otherwise
LoudnessOf(chunk) == IF chunk.rms > 0 THEN chunk.dBFS ELSE FLOOR_DB

\* loudness_dBs after the loop of lines 23-27
LoudnessList(cs) == [i \in 1..Len(cs) |-> LoudnessOf(cs[i])]

\* line 29: valid_dbs = [db for db in loudness_dBs if db > -90.0]
ValidDbs(l) == SelectSeq(l, LAMBDA db : db > FLOOR_DB)

RECURSIVE SeqMin(_)
SeqMin(l) == IF Len(l) = 1 THEN l[1] ELSE Min(l[1], SeqMin(Tail(l)))

RECURSIVE SeqMax(_)
SeqMax(l) == IF Len(l) = 1 THEN l[1] ELSE Max(l[1], SeqMax(Tail(l)))

RECURSIVE SeqSum(_)
SeqSum(l) == IF l = <<>> THEN 0 ELSE l[1] + SeqSum(Tail(l))

\* a mutant of analyze_audio_dB: without a valid value the per-chunk list is
\* still returned
AnalyzeKeepsSamples(cs) ==
    LET l == LoudnessList(cs)
        valid_dbs == ValidDbs(l)
    IN  IF valid_dbs = <<>>
        THEN [min |-> FLOOR_DB, max |-> FLOOR_DB, mean |-> <<FLOOR_DB, 1>>,
              samples |-> l]
        ELSE [min |-> SeqMin(valid_dbs), max |-> SeqMax(valid_dbs),
              mean |-> <<SeqSum(valid_dbs), Len(valid_dbs)>>, samples |-> l]

\* analyze_audio_dB, lines 20-33: (min, max, mean, list); the mean is the
\* rational <<sum, count>>
analyze_audio_dB(cs) ==
    LET l == LoudnessList(cs)
        valid_dbs == ValidDbs(l)
    IN  IF valid_dbs = <<>>
        THEN [min |-> FLOOR_DB, max |-> FLOOR_DB, mean |-> <<FLOOR_DB, 1>>,
              samples |-> <<>>]
        ELSE [min |-> SeqMin(valid_dbs), max |-> SeqMax(valid_dbs),
              mean |-> <<SeqSum(valid_dbs), Len(valid_dbs)>>, samples |-> l]

\* a mutant of IsSilentChunk: the comparison made non-strict
IsSilentChunkNonStrict(chunk, thresh) ==
    IF chunk.rms > 0 THEN chunk.dBFS <= thresh ELSE TRUE

\* line 53: is_silent_chunk = chunk.dBFS < silence_thresh_dB if chunk.rms > 0 else True
IsSilentChunk(chunk, thresh) ==
    IF chunk.rms > 0 THEN chunk.dBFS < thresh ELSE TRUE

\* a mutant of SilenceLoop: the run that is open at the end is not closed
RECURSIVE SilenceLoopNoFlush(_, _, _, _, _, _, _, _)
SilenceLoopNoFlush(cs, i, is_in_silence, silence_start_time, out, thresh, chunk_ms, total) ==
    IF i = Len(cs) THEN out
    ELSE LET time_ms == i * chunk_ms
         IN  IF IsSilentChunk(cs[i + 1], thresh)
             THEN SilenceLoopNoFlush(cs, i + 1, TRUE,
                                     IF is_in_silence THEN silence_start_time ELSE time_ms,
                                     out, thresh, chunk_ms, total)
             ELSE SilenceLoopNoFlush(cs, i + 1, FALSE, silence_start_time,
                                     IF is_in_silence
                                     THEN Append(out, <<silence_start_time, time_ms>>)
                                     ELSE out,
                                     thresh, chunk_ms, total)

\* lines 51-66: the loop over the chunks, i counting from 0, and the closing of
\* a run that reaches the end of the audio at len(audio)
RECURSIVE SilenceLoop(_, _, _, _, _, _, _, _)
SilenceLoop(cs, i, is_in_silence, silence_start_time, out, thresh, chunk_ms, total) ==
    IF i = Len(cs)
    THEN IF is_in_silence THEN Append(out, <<silence_start_time, total>>) ELSE out
    ELSE LET time_ms == i * chunk_ms
         IN  IF IsSilentChunk(cs[i + 1], thresh)
             THEN SilenceLoop(cs, i + 1, TRUE,
                              IF is_in_silence THEN silence_start_time ELSE time_ms,
                              out, thresh, chunk_ms, total)
             ELSE SilenceLoop(cs, i + 1, FALSE, silence_start_time,
                              IF is_in_silence
                              THEN Append(out, <<silence_start_time, time_ms>>)
                              ELSE out,
                              thresh, chunk_ms, total)

\* detect_silence_based_on_dB, lines 47-68
detect_silence_based_on_dB(cs, thresh, chunk_ms, total) ==
    SilenceLoop(cs, 0, FALSE, 0, <<>>, thresh, chunk_ms, total)

(* --------------- inputs of the audio specification -------------------- *)

\* a chunk as the two properties the code reads: a chunk without energy
\* (rms = 0, its dBFS is minus infinity, written -1000 and never read), or a
\* chunk with energy and a dBFS below, at and above the floor
ChunkValues ==
    {[rms |-> 0, dBFS |-> -1000]}
        \cup {[rms |-> 1, dBFS |-> d] : d \in {-91, -90, -40, -20}}

ChunkSequences == UNION {[1..n -> ChunkValues] : n \in 0..MaxChunks}

Thresholds == {-90, -40, -30}

\* make_chunks cuts len(audio) ms into ceil(len / chunk_length) chunks, the
\* last of which may be shorter
AudioInit ==
    /\ chunks \in ChunkSequences
    /\ chunk_length_ms \in 1..MaxChunkMs
    /\ IF chunks = <<>>
       THEN audio_len_ms = 0
       ELSE \E last \in 1..chunk_length_ms :
               audio_len_ms = (Len(chunks) - 1) * chunk_length_ms + last
    /\ silence_thresh_dB \in Thresholds
    /\ loudness_stats = NoStats /\ silence_ranges = <<>>
    /\ MergeIdle /\ JobIdle /\ AtempoIdle /\ UnitIdle
    /\ pc = "audio_input"

\* one call of analyze_audio_dB
AnalyzeAudio ==
    /\ pc = "audio_input"
    /\ loudness_stats' = analyze_audio_dB(chunks)
    /\ pc' = "audio_analyzed"
    /\ UNCHANGED <<merge_vars, job_vars, graph, atempo_vars, run_vars, unit_vars, clip_list, app_vars, chunks,
                   chunk_length_ms, audio_len_ms, silence_thresh_dB, silence_ranges>>

\* one call of detect_silence_based_on_dB
DetectSilence ==
    /\ pc = "audio_input"
    /\ silence_ranges' = detect_silence_based_on_dB(chunks, silence_thresh_dB,
                                                    chunk_length_ms, audio_len_ms)
    /\ pc' = "silence_detected"
    /\ UNCHANGED <<merge_vars, job_vars, graph, atempo_vars, run_vars, unit_vars, clip_list, app_vars, chunks,
                   chunk_length_ms, audio_len_ms, silence_thresh_dB, loudness_stats>>

NextAudio == AnalyzeAudio \/ DetectSilence

SpecAudio == AudioInit /\ [][NextAudio]_vars

(* ------------------- properties of the range merger ------------------- *)

Duration(r) == r[2] - r[1]

\* C1: after a call of merge_and_optimize_ranges on ranges with start < end and
\* d >= 0, g >= 0, the output is ascending by start, pairwise disjoint, consecutive
\* output ranges are at least g apart, every output range lasts at least d, and an
\* empty input gives the empty list.
C1_MergeOutputWellFormed ==
    passes >= 1 =>
        /\ \A i \in 1..Len(merged) : Duration(merged[i]) >= min_duration_ms
        /\ \A i \in 1..(Len(merged) - 1) :
               /\ merged[i][1] < merged[i + 1][1]
               /\ merged[i + 1][1] >= merged[i][2] + gap_ms
        /\ \A i, j \in 1..Len(merged) :
               i < j => (merged[i][2] <= merged[j][1] \/ merged[j][2] <= merged[i][1])
        /\ (ranges = <<>> => merged = <<>>)

\* C1 witness: an unsorted three-range input with positive d and g was merged
\* into two output ranges.
C1_Witness ==
    /\ passes = 1 /\ Len(ranges) = 3 /\ Len(merged) = 2
    /\ ranges[1][1] > ranges[2][1]
    /\ min_duration_ms > 0 /\ gap_ms > 0

\* C2: merging the output again with the same d and g returns exactly the same
\* list (after the second pass, ranges holds the first output and merged the second).
C2_MergeIdempotent == passes = 2 => merged = ranges

\* C2 witness: a second pass over a first output of two ranges, with g > 0.
C2_Witness == passes = 2 /\ Len(ranges) = 2 /\ gap_ms > 0 /\ min_duration_ms > 0

\* the two ranges of a two-range input in the order the stable sort gives them
FirstOfTwo(rs) == IF rs[1][1] <= rs[2][1] THEN rs[1] ELSE rs[2]
SecondOfTwo(rs) == IF rs[1][1] <= rs[2][1] THEN rs[2] ELSE rs[1]

\* C8: after sorting, the next range is merged into the running range exactly
\* when next.start < current_end + gap (strict); the three worked examples with
\* min_duration = 50, gap = 100, the last one starting exactly at current_end + gap.
C8_MergeWhenStrictlyWithinGap ==
    passes = 1 =>
        /\ (Len(ranges) = 2 /\ min_duration_ms = 0) =>
               LET a == FirstOfTwo(ranges)
                   b == SecondOfTwo(ranges)
               IN  merged = IF b[1] < a[2] + gap_ms
                            THEN << <<a[1], Max(a[2], b[2])>> >>
                            ELSE <<a, b>>
        /\ (min_duration_ms = 50 /\ gap_ms = 100) =>
               /\ (ranges = << <<0, 100>>, <<150, 300>> >> => merged = << <<0, 300>> >>)
               /\ (ranges = << <<0, 100>>, <<300, 400>> >> => merged = ranges)
               /\ (ranges = << <<0, 100>>, <<200, 300>> >> => merged = ranges)

\* C8 witness: the range starting exactly at current_end + gap was kept apart.
C8_Witness ==
    /\ passes = 1 /\ min_duration_ms = 50 /\ gap_ms = 100
    /\ ranges = << <<0, 100>>, <<200, 300>> >>
    /\ merged = << <<0, 100>>, <<200, 300>> >>

\* C9: the minimum-duration filter acts on the accumulated (post-merge) ranges,
\* inside the loop and for the last accumulation: the output is the list of
\* accumulated ranges (the merge with min_duration 0) without those shorter than
\* min_duration; [(0,30)] with 50/100 gives [], and short inputs whose
\* accumulation reaches min_duration are kept.
C9_MinDurationOnAccumulated ==
    passes = 1 =>
        /\ merged = SelectSeq(merge_and_optimize_ranges(ranges, 0, gap_ms),
                              LAMBDA r : Duration(r) >= min_duration_ms)
        /\ (min_duration_ms = 50 /\ gap_ms = 100) =>
               /\ (ranges = << <<0, 30>> >> => merged = <<>>)
               /\ (ranges = << <<0, 30>>, <<40, 70>> >> => merged = << <<0, 70>> >>)

\* C9 witness: an input range shorter than min_duration survives inside a kept
\* accumulation while another accumulation was dropped.
C9_Witness ==
    /\ passes = 1
    /\ \E i \in 1..Len(ranges) : \E j \in 1..Len(merged) :
          /\ Duration(ranges[i]) < min_duration_ms
          /\ merged[j][1] <= ranges[i][1] /\ ranges[i][2] <= merged[j][2]
    /\ Len(merge_and_optimize_ranges(ranges, 0, gap_ms)) > Len(merged)

(* ------------------- properties of the filter graph ------------------- *)

\* the interval <<start, end>> of each segment, in order
Intervals(segs) == [i \in 1..Len(segs) |-> <<segs[i].start, segs[i].end>>]

RECURSIVE TotalDuration(_)
TotalDuration(iv) == IF iv = <<>> THEN 0 ELSE Duration(Head(iv)) + TotalDuration(Tail(iv))

\* the intervals, in order, exactly tile [a, b): the first starts at a, each starts
\* where the previous one ends, the last ends at b, the durations sum to b - a
Tiles(iv, a, b) ==
    /\ iv # <<>>
    /\ iv[1][1] = a
    /\ \A i \in 1..(Len(iv) - 1) : iv[i][2] = iv[i + 1][1]
    /\ iv[Len(iv)][2] = b
    /\ \A i \in 1..Len(iv) : iv[i][1] < iv[i][2]
    /\ TotalDuration(iv) = b - a

\* the pre margin does not reach back past the previous plan range (or past 0)
MarginsFit(plan, pre_ms) ==
    \A i \in 1..Len(plan) :
        plan[i][1] - pre_ms >= (IF i = 1 THEN 0 ELSE plan[i - 1][2])

\* the regions a cut removes under a pre margin: [start - pre, end) of each range
CutRegions(plan, pre_ms) == [i \in 1..Len(plan) |-> <<plan[i][1] - pre_ms, plan[i][2]>>]

\* the intervals of iv and of jv together cover [a, b) once: all lie inside,
\* no two of them overlap, and their durations sum to b - a
TileTogether(iv, jv, a, b) ==
    LET all == iv \o jv
    IN  /\ \A i \in 1..Len(all) : a <= all[i][1] /\ all[i][1] < all[i][2] /\ all[i][2] <= b
        /\ \A i, j \in 1..Len(all) :
              i < j => (all[i][2] <= all[j][1] \/ all[j][2] <= all[i][1])
        /\ TotalDuration(all) = b - a

C5_BothMarginsMoveTheCut ==
    (pc = "chunk_built" /\ processing_mode = CUT) =>
        LET iv == Intervals(Segments(graph))
            plan == ranges_to_process
        IN  /\ (/\ plan = << <<10000, 20000>> >> /\ video_duration_ms = 60000
                /\ pre_cut_seconds = 2 /\ post_cut_seconds = 1) =>
                   iv = << <<0, 8000>>, <<21000, 60000>> >>
            /\ \A k \in 1..Len(iv) :
                  /\ \/ iv[k][1] = 0
                     \/ \E i \in 1..Len(plan) :
                           iv[k][1] = plan[i][2] + post_cut_seconds * 1000
                  /\ \/ iv[k][2] = video_duration_ms
                     \/ \E i \in 1..Len(plan) :
                           iv[k][2] = plan[i][1] - pre_cut_seconds * 1000

(* ------------------- properties of the atempo chain ------------------- *)

\* C10 as stated: a speed factor of 250 with a per-stage cap of 100 gives the
\* stages [100, 100, 25].
C10_Chain250IsThreeStages ==
    (pc = "atempo_built" /\ atempo_factor = <<2500, 10>>) =>
        atempo_chain = <<100 * TenThousandths, 100 * TenThousandths, 25 * TenThousandths>>

\* C10 as amended: a speed factor of 250 gives the stages [100.0, 2.5000], and
\* their product is 250.
C10_Chain250IsTwoStages ==
    (pc = "atempo_built" /\ atempo_factor = <<2500, 10>>) =>
        /\ atempo_chain = <<100 * TenThousandths, 25000>>
        /\ (atempo_chain[1] \div TenThousandths) * atempo_chain[2] = 250 * TenThousandths

\* C10 witness: the chain of the factor 250 has been built.
C10_Witness ==
    pc = "atempo_built" /\ atempo_factor = <<2500, 10>> /\ Len(atempo_chain) = 2

\* f > c for the rational f = <<n, d>> and the integer c > 0
Exceeds(f, c) == f[1] >= 1 /\ (f[1] - 1) \div c >= f[2]

\* how often f can be divided by 100 while it is greater than 100
Divisions(f) == Cardinality({k \in 1..4 : Exceeds(f, 100 ^ k)})

\* f divided by 100 that many times
Remainder(f) ==
    LET RECURSIVE Scale(_, _)
        Scale(d, k) == IF k = 0 THEN d ELSE Scale(d * 100, k - 1)
    IN  <<f[1], Scale(f[2], Divisions(f))>>

\* the stage value m (in ten-thousandths) is exactly the rational r
StageIs(m, r) == m * r[2] = r[1] * TenThousandths

\* the stage value m is the rational r rounded to the nearest ten-thousandth
StageRounds(m, r) ==
    LET diff == m * r[2] - r[1] * TenThousandths
    IN  2 * diff <= r[2] /\ 2 * (0 - diff) <= r[2]

\* the stages before the last each undo one division by 100
LeadingStagesAreCaps ==
    \A i \in 1..(Len(atempo_chain) - 1) : atempo_chain[i] = 100 * TenThousandths

\* C11 as stated: for every factor f every stage m has 1 < m <= 100, the product
\* of the stages is f (for a non-empty chain), the chain is empty exactly when
\* f <= 1, and there is one stage per division by 100 plus one for a remainder
\* greater than 1.
C11_ChainStagesExact ==
    pc = "atempo_built" =>
        LET f == atempo_factor
            n == Len(atempo_chain)
            r == Remainder(f)
        IN  /\ \A i \in 1..n : /\ atempo_chain[i] > TenThousandths
                                /\ atempo_chain[i] <= 100 * TenThousandths
            /\ (n = 0) <=> (f[1] <= f[2])
            /\ n = Divisions(f) + (IF r[1] > r[2] THEN 1 ELSE 0)
            /\ n > 0 => (LeadingStagesAreCaps /\ StageIs(atempo_chain[n], r))

\* C11 as amended: the chain is empty exactly when f <= 1; for f > 1 there is
\* one stage of 100 per division and one last stage, which is the remainder
\* rounded to four decimals: it lies in 1..100 (1.0000 included), and the
\* product equals f exactly when the remainder has at most four decimals.
C11_ChainStagesRounded ==
    pc = "atempo_built" =>
        LET f == atempo_factor
            n == Len(atempo_chain)
            r == Remainder(f)
        IN  /\ (n = 0) <=> (f[1] <= f[2])
            /\ n > 0 =>
                  /\ n = Divisions(f) + 1
                  /\ r[1] > r[2]
                  /\ LeadingStagesAreCaps
                  /\ atempo_chain[n] >= TenThousandths
                  /\ atempo_chain[n] <= 100 * TenThousandths
                  /\ StageRounds(atempo_chain[n], r)
                  /\ ((r[1] * TenThousandths) % r[2] = 0
                        => (StageIs(atempo_chain[n], r) /\ atempo_chain[n] > TenThousandths))

\* C11 witness: a factor inside the slider's range with more than four decimals
\* was turned into a single rounded stage.
C11_Witness ==
    /\ pc = "atempo_built"
    /\ atempo_factor[2] = 30000 /\ atempo_factor[1] > 33000
    /\ Len(atempo_chain) = 1
    /\ ~StageIs(atempo_chain[1], atempo_factor)

(* ------------------- properties of the render job --------------------- *)

Occurs(seq, x) == \E i \in 1..Len(seq) : seq[i] = x

\* C3 as stated: a failure of the external tool at the video pass, the audio
\* pass or the mux makes the job go to SAFE_PATH instead of ending it.
C3_ToolFailureFallsBack ==
    \A i \in 1..Len(ffmpeg_runs) :
        ffmpeg_runs[i][2] # "ok" => Occurs(history, "SAFE_PATH")

\* C6: with the fast-path-first flag on the selector chooses SAFE_PATH exactly
\* when 2 * N + 1 > 50 and FAST_PATH otherwise (N = 30 and 25: SAFE_PATH; N = 10
\* and 24: FAST_PATH); with the flag off it always chooses SAFE_PATH.
C6_SelectorChoice ==
    (Len(history) >= 2 /\ history[2] \in {"FAST_PATH", "SAFE_PATH"}) =>
        LET N == Len(ranges_to_process)
        IN  /\ history[2] = "SAFE_PATH" <=>
                  (~config.use_ffmpeg_direct \/ 2 * N + 1 > MAX_CONCAT_STREAMS)
            /\ config.use_ffmpeg_direct =>
                  /\ N \in {25, 30} => history[2] = "SAFE_PATH"
                  /\ N \in {10, 24} => history[2] = "FAST_PATH"

\* C6 witness: a plan of 25 ranges (estimate 51) was sent to SAFE_PATH with the
\* flag on.
C6_Witness ==
    /\ Len(ranges_to_process) = 25 /\ config.use_ffmpeg_direct
    /\ Len(history) >= 2 /\ history[2] = "SAFE_PATH"

TerminalStates == {"DONE", "FAILED", "ENDED"}

\* the four properties C7 lists: FAST_PATH and SAFE_PATH are entered at most
\* once each, FAST_PATH never after SAFE_PATH, and a terminal state is final
AtMostOneDowngrade ==
    /\ history[1] = "ESTIMATE" /\ Count(history, "ESTIMATE") = 1
    /\ Count(history, "FAST_PATH") <= 1
    /\ Count(history, "SAFE_PATH") <= 1
    /\ \A i, j \in 1..Len(history) :
          i < j => ~(history[i] = "SAFE_PATH" /\ history[j] = "FAST_PATH")
    /\ \A i \in 1..Len(history) :
          history[i] \in TerminalStates => (i = Len(history) /\ pc = "end")
    /\ pc = "end" => history[Len(history)] \in TerminalStates
    /\ (\/ Occurs(signals, "ERROR_OPEN")
        \/ (codec_index > 0 /\ pc = "end" /\ ~output_written))
          => history[Len(history)] = "FAILED"

\* C7 as stated: every run follows ESTIMATE -> {FAST_PATH, SAFE_PATH} ->
\* {DONE, FAILED} with at most one downgrade.
C7_StatesFollowTheMachine ==
    /\ AtMostOneDowngrade
    /\ \A i \in 2..Len(history) :
          /\ history[i - 1] = "ESTIMATE" => history[i] \in {"FAST_PATH", "SAFE_PATH"}
          /\ history[i] \in {"FAST_PATH", "SAFE_PATH", "DONE", "FAILED"}

\* C7 as amended: every run follows ESTIMATE -> {FAST_PATH, SAFE_PATH} ->
\* {DONE, FAILED}, except that ESTIMATE ends in FAILED at once when the source
\* cannot be opened there and SAFE_PATH ends without any signal when no clip is
\* left; FAST_PATH and SAFE_PATH are entered at most once each, FAST_PATH never
\* after SAFE_PATH, a failure inside SAFE_PATH is terminal, and nothing is
\* attempted after a terminal state.
C7_StatesFollowTheCode ==
    /\ [](/\ AtMostOneDowngrade
          /\ \A i \in 2..Len(history) :
                /\ history[i - 1] = "ESTIMATE" =>
                      history[i] \in {"FAST_PATH", "SAFE_PATH", "FAILED"}
                /\ history[i] = "ENDED" => history[i - 1] = "SAFE_PATH"
                /\ (history[i] = "FAILED" /\ history[i - 1] = "ESTIMATE") =>
                      signals = <<"ERROR_UNEXPECTED">>)
    /\ [][pc # "end"]_vars

\* C7 witness: a run that was downgraded once and then failed inside SAFE_PATH
\* after every encoder had been tried.
C7_Witness ==
    /\ history = <<"ESTIMATE", "FAST_PATH", "SAFE_PATH", "FAILED">>
    /\ codec_index = Len(config.encoder_priority)
    /\ pc = "end"

(* ------------------- properties of the audio tools -------------------- *)

\* chunk number i (from 1) is silent: no energy, or a loudness strictly below
\* the threshold
Silent(i) == chunks[i].rms = 0 \/ chunks[i].dBFS < silence_thresh_dB

AllSilent == \A i \in 1..Len(chunks) : Silent(i)

\* C12 as stated: for every chunk sequence in which every chunk is silent,
\* detect_silence_based_on_dB returns exactly one range, (0, total duration).
C12_AllSilentIsOneRange ==
    (pc = "silence_detected" /\ AllSilent) =>
        silence_ranges = << <<0, audio_len_ms>> >>

\* C12 as amended: for every chunk sequence of at least one chunk in which
\* every chunk is silent the result is the one range (0, total duration); for
\* an audio without chunks the result is empty.
C12_AllSilentNonEmptyIsOneRange ==
    pc = "silence_detected" =>
        /\ (chunks # <<>> /\ AllSilent) => silence_ranges = << <<0, audio_len_ms>> >>
        /\ chunks = <<>> => silence_ranges = <<>>

\* C12 witness: three or more chunks, some without energy and some below the
\* threshold, the last one shorter than the chunk length, gave one range.
C12_Witness ==
    /\ pc = "silence_detected" /\ Len(chunks) >= 3 /\ AllSilent
    /\ \E i, j \in 1..Len(chunks) : chunks[i].rms = 0 /\ chunks[j].rms > 0
    /\ audio_len_ms < Len(chunks) * chunk_length_ms
    /\ Len(silence_ranges) = 1

\* the maximal runs of silent chunks, as <<i, j>> for the chunks i .. j-1
\* counted from 0
MaximalRuns ==
    LET n == Len(chunks)
    IN  {r \in (0..n) \X (0..n) :
            /\ r[1] < r[2]
            /\ \A k \in (r[1] + 1)..r[2] : Silent(k)
            /\ (r[1] = 0 \/ ~Silent(r[1]))
            /\ (r[2] = n \/ ~Silent(r[2] + 1))}

\* the range of a run: it ends at the start of the chunk that follows it, or
\* at the total duration when it reaches the last chunk
RangeOfRun(r) ==
    <<r[1] * chunk_length_ms,
      IF r[2] = Len(chunks) THEN audio_len_ms ELSE r[2] * chunk_length_ms>>

NoneAboveFloor == \A i \in 1..Len(chunks) : LoudnessOf(chunks[i]) <= FLOOR_DB

\* C18 as stated: when no chunk is louder than the floor, analyze_audio_dB
\* returns min = max = mean = floor and the full per-chunk list, whose length is
\* the number of chunks.
C18_AllFloorKeepsSamples ==
    (pc = "audio_analyzed" /\ NoneAboveFloor) =>
        /\ loudness_stats.min = FLOOR_DB /\ loudness_stats.max = FLOOR_DB
        /\ loudness_stats.mean = <<FLOOR_DB, 1>>
        /\ Len(loudness_stats.samples) = Len(chunks)

\* C18 as amended: when no chunk is louder than the floor, analyze_audio_dB
\* returns min = max = mean = floor and an empty sample sequence; the full
\* per-chunk list is returned only when some chunk is louder than the floor.
C18_AllFloorDropsSamples ==
    pc = "audio_analyzed" =>
        /\ NoneAboveFloor =>
              /\ loudness_stats.min = FLOOR_DB /\ loudness_stats.max = FLOOR_DB
              /\ loudness_stats.mean = <<FLOOR_DB, 1>>
              /\ loudness_stats.samples = <<>>
        /\ ~NoneAboveFloor =>
              /\ Len(loudness_stats.samples) = Len(chunks)
              /\ \A i \in 1..Len(chunks) :
                    loudness_stats.samples[i] = LoudnessOf(chunks[i])

\* C18 witness: an audio of several chunks, none louder than the floor, was
\* analysed.
C18_Witness ==
    /\ pc = "audio_analyzed" /\ Len(chunks) >= 2 /\ NoneAboveFloor
    /\ \E i \in 1..Len(chunks) : chunks[i].rms > 0
    /\ loudness_stats.samples = <<>>

(* ------------------- properties of the two backends ------------------- *)

ErrorSignals == {"ERROR_ENCODE", "ERROR_OPEN", "ERROR_UNEXPECTED"}

\* C15: a FAST_PATH step that returns non-zero is not shown to the user as a
\* failure: an error signal is seen only after SAFE_PATH was entered and failed.
C15_FastFailureNotSurfaced ==
    (\E i \in 1..Len(ffmpeg_runs) : ffmpeg_runs[i][2] = "nonzero") =>
        \A j \in 1..Len(signals) :
            signals[j] \in ErrorSignals =>
                (Occurs(history, "SAFE_PATH") /\ history[Len(history)] = "FAILED")

\* C19: the success signal is emitted only for a job that has written its
\* output file at the reported path.
C19_SuccessMeansOutput ==
    Occurs(signals, "INFO_DONE") => (output_written /\ output_path \in files)

\* C17: on SAFE_PATH the encoders are tried in list order, each only after all
\* before it failed and none after a success; the success signal is there
\* exactly when an attempt succeeded, the error signal exactly when every
\* encoder of the list was tried and failed.
C17_EncodersInOrder ==
    LET prio == config.encoder_priority
        n == Len(encode_log)
    IN  /\ n <= Len(prio)
        /\ \A i \in 1..n : encode_log[i][1] = prio[i]
        /\ \A i \in 1..(n - 1) : ~encode_log[i][2]
        /\ n > 0 =>
              /\ Occurs(signals, "INFO_DONE") <=> encode_log[n][2]
              /\ Occurs(signals, "ERROR_ENCODE") <=>
                    (n = Len(prio) /\ \A i \in 1..n : ~encode_log[i][2])
              /\ Count(signals, "INFO_DONE") + Count(signals, "ERROR_ENCODE") <= 1

\* C17 witness: the first encoder failed, the second succeeded and the success
\* signal was emitted.
C17_Witness ==
    /\ Len(encode_log) = 2 /\ ~encode_log[1][2] /\ encode_log[2][2]
    /\ encode_log[1][1] = config.encoder_priority[1]
    /\ encode_log[2][1] = config.encoder_priority[2]
    /\ Occurs(signals, "INFO_DONE") /\ pc = "end"

(* ---------------- properties of the application pipeline -------------- *)

\* the name the render may write to, given the files that exist when the job
\* starts: the original name if it is free, otherwise the suffixed name with
\* the smallest k >= 1 that is free
SmallestFree(existing) ==
    IF 0 \notin existing THEN 0
    ELSE CHOOSE k \in 1..(MaxFiles + 1) :
            k \notin existing /\ \A j \in 1..(k - 1) : j \in existing

\* C13: the render never overwrites a file. The output path of every route is
\* the original name when no file of that name exists and otherwise name_k for
\* the smallest k >= 1 that is free, every path an encoder or ffmpeg wrote to
\* is that path, and the files present at the start are all still present.
C13_NeverOverwrites ==
    /\ \A p \in writes : p \notin files_at_start /\ p = SmallestFree(files_at_start)
    /\ output_path # NoPath => output_path = SmallestFree(files_at_start)
    /\ files_at_start \subseteq files

\* the output name is taken, the FAST route fails and the SAFE route reached
\* by fallback writes the output to the second suffixed name
C13_Witness ==
    /\ files_at_start = {0, 1}
    /\ writes = {2} /\ output_written /\ 2 \in files
    /\ Occurs(history, "FAST_PATH") /\ Occurs(history, "SAFE_PATH")

\* C14: when the merged plan of process_video is empty the job ends with the
\* "nothing to do" information box, shows no error box, does not call
\* cut_or_speedup_video and writes no output; the information box is shown
\* only for an empty plan.
C14_EmptyPlanIsInformation ==
    /\ (Occurs(app_log, "merged") /\ ranges_to_process = <<>>) =>
          /\ Occurs(signals, "INFO_NOTHING")
          /\ \A i \in 1..Len(signals) : signals[i] \notin ErrorSignals \cup {"SUCCESS", "ERROR_UNEXPECTED"}
          /\ ~Occurs(app_log, "cut_or_speedup_video")
          /\ history = <<>> /\ ffmpeg_runs = <<>> /\ encode_log = <<>>
          /\ writes = {} /\ ~output_written /\ files = files_at_start
          /\ pc \in {"end", "finished"}
    /\ Occurs(signals, "INFO_NOTHING") =>
          Occurs(app_log, "merged") /\ ranges_to_process = <<>>

\* a source with audio whose only silent range is too short to be kept was
\* processed in the audio mode and the job has ended
C14_Witness ==
    /\ pc = "finished" /\ ~is_processing
    /\ cut_mode = "AUDIO" /\ has_audio /\ silence_ranges = << <<0, 400>> >>
    /\ Occurs(signals, "INFO_NOTHING")

\* C16: when the audio task or the video task of the analysis failed, the
\* result of analyze_media carries the error and neither audio nor video data,
\* the threshold window is not opened, and neither process_video nor
\* cut_or_speedup_video is called for that drop.
C16_FailedAnalysisStops ==
    (Occurs(app_log, "audio_task_failed") \/ Occurs(app_log, "video_task_failed")) =>
        /\ analysis_result = [audio_data |-> "none", video_data |-> "none", error |-> "exception"]
        /\ ~Occurs(app_log, "ThresholdWindow")
        /\ ~Occurs(app_log, "process_video")
        /\ ~Occurs(app_log, "cut_or_speedup_video")
        /\ pc \in {"analysis_done", "idle"}
        /\ history = <<>> /\ writes = {}

\* the video task failed while the audio task returned data; the error box
\* was shown and the application is idle again
C16_Witness ==
    /\ pc = "idle" /\ ~is_processing
    /\ Occurs(app_log, "video_task_failed") /\ ~Occurs(app_log, "audio_task_failed")
    /\ Occurs(signals, "ERROR_ANALYSIS")

(* ------------- video_tools.detect_central_static_frames --------------- *)

\* line 97: the frame rate used when CAP_PROP_FPS is not positive
FALLBACK_FPS == 30

\* line 97: fps = fps if fps > 0 else 30
FpsOrFallback(f) == IF f[1] > 0 THEN f ELSE <<FALLBACK_FPS, 1>>

\* lines 115-116 and 122-123: (frame / fps) * 1000, as a rational <<num, den>>
FrameToMs(frame, f) == <<frame * 1000 * f[2], f[1]>>

\* a mutant of IsStaticNow: the comparison made non-strict
IsStaticNowNonStrict(diff, thresh) == diff <= thresh

\* line 108: is_static_now = diff < movement_thresh
IsStaticNow(diff, thresh) == diff < thresh

\* the for loop of lines 107-118 and the closing of lines 121-124; the sample
\* at position k of the iterator carries frame_num = k (video_tools.py lines
\* 49-59: frame_num starts at 0 and is incremented before each yield)
RECURSIVE StaticLoop(_, _, _, _, _, _, _, _)
StaticLoop(diffs, frame_num, is_in_static, static_start_frame, out, thresh, f, total) ==
    IF frame_num > Len(diffs)
    THEN IF is_in_static
         THEN Append(out, <<FrameToMs(static_start_frame, f), FrameToMs(total, f)>>)
         ELSE out
    ELSE LET is_static_now == IsStaticNow(diffs[frame_num], thresh)
         IN  IF is_static_now /\ ~is_in_static
             THEN StaticLoop(diffs, frame_num + 1, TRUE, frame_num, out, thresh, f, total)
             ELSE IF ~is_static_now /\ is_in_static
             THEN StaticLoop(diffs, frame_num + 1, FALSE, static_start_frame,
                             Append(out, <<FrameToMs(static_start_frame, f),
                                           FrameToMs(frame_num, f)>>),
                             thresh, f, total)
             ELSE StaticLoop(diffs, frame_num + 1, is_in_static, static_start_frame,
                             out, thresh, f, total)

\* detect_central_static_frames once the capture is open (lines 96-126)
detect_central_static_frames(diffs, thresh, f, total) ==
    StaticLoop(diffs, 1, FALSE, 0, <<>>, thresh, FpsOrFallback(f), total)

\* longest enumerated sequence of frame differences
MaxSamples == 4
\* largest enumerated frame difference
MaxDiff == 2

\* the frame differences of a source, in whole units
DiffSequences == UNION {[1..n -> 0..MaxDiff] : n \in 0..MaxSamples}

\* the frame rates a capture reports: unknown (0), negative, 25, 30 and 7.5
FrameRates == {<<0, 1>>, <<-1, 1>>, <<25, 1>>, <<30, 1>>, <<15, 2>>}

\* CAP_PROP_FRAME_COUNT of a source whose iterator yields n differences: the
\* n + 1 frames read, or a container header that counts one frame less
VideoInit ==
    /\ motion_diffs \in DiffSequences
    /\ fps \in FrameRates
    /\ total_frames \in {Len(motion_diffs) + 1, Len(motion_diffs)}
    /\ movement_thresh \in 0..MaxDiff
    /\ HandleIdle /\ TaskIdle /\ BuilderIdle /\ BusyIdle
    /\ MergeIdle /\ JobIdle /\ AtempoIdle /\ AudioIdle
    /\ pc = "video_input"

\* one call of detect_central_static_frames; a capture that cannot be opened
\* gives the empty list (line 95)
DetectStaticFrames ==
    /\ pc = "video_input"
    /\ \E opened \in BOOLEAN :
          IF opened
          THEN /\ static_ranges' = detect_central_static_frames(
                                      motion_diffs, movement_thresh, fps, total_frames)
               /\ pc' = "static_detected"
          ELSE /\ static_ranges' = <<>>
               /\ pc' = "capture_not_opened"
    /\ UNCHANGED <<merge_vars, job_vars, graph, atempo_vars, run_vars, clip_list,
                   audio_vars, unit_vars, is_processing, analysis_result, app_log,
                   cut_mode, ui_busy>>

NextVideo == DetectStaticFrames

SpecVideo == VideoInit /\ [][NextVideo]_vars

(* -------------- properties of the static-frame detector --------------- *)

StaticSample(k) == motion_diffs[k] < movement_thresh

\* the maximal runs <<i, j>> of samples below the threshold: frames i..j
StaticRuns ==
    {r \in (1..Len(motion_diffs)) \X (1..Len(motion_diffs)) :
        /\ r[1] <= r[2]
        /\ \A k \in r[1]..r[2] : StaticSample(k)
        /\ (r[1] = 1 \/ ~StaticSample(r[1] - 1))
        /\ (r[2] = Len(motion_diffs) \/ ~StaticSample(r[2] + 1))}

\* the frame index at which the run r is closed
ClosingFrame(r) == IF r[2] = Len(motion_diffs) THEN total_frames ELSE r[2] + 1

\* ms = frame / rate * 1000, for a time ms given as a rational
IsFrameTime(ms, frame, rate) == ms[1] * rate[1] = frame * 1000 * rate[2] * ms[2]

\* the frame rate the conversion has to use
UsedRate == IF fps[1] > 0 THEN fps ELSE <<30, 1>>

RawSilence ==
    {<<>>, << <<0, 60>> >>, << <<0, 120>> >>, << <<0, 600>> >>,
     << <<0, 300>>, <<350, 700>> >>, << <<1000, 1060>> >>}

\* what the static-frame detector reports, in ms
RawStatic ==
    {<<>>, << <<200, 260>> >>, << <<500, 1100>> >>, << <<650, 720>> >>,
     << <<2000, 2080>> >>}

\* values of min_silence_duration_ms and min_static_duration_ms in config.json
ConfiguredMinDurations == {50, CombinedMinDurationMs, DefaultMinDurationMs}

PlanInit ==
    /\ silence_ranges \in RawSilence
    /\ static_ranges \in RawStatic
    /\ config \in {[DefaultConfig EXCEPT !.min_silence_duration_ms = a,
                                        !.min_static_duration_ms = b] :
                      a \in ConfiguredMinDurations, b \in ConfiguredMinDurations}
    /\ cut_mode = "BOTH"
    /\ MergeIdle
    /\ ranges_to_process = <<>> /\ processing_mode = CUT
    /\ pre_cut_seconds = 0 /\ post_cut_seconds = 0
    /\ video_duration_ms = 0 /\ has_audio = TRUE
    /\ speedup_factor = <<5, 1>> /\ speedup_volume = <<1, 1>>
    /\ graph = NoGraph
    /\ RunIdle
    /\ is_processing = FALSE /\ analysis_result = NoResult /\ app_log = <<>>
    /\ ui_busy = FALSE
    /\ chunks = <<>> /\ chunk_length_ms = 1 /\ audio_len_ms = 0
    /\ silence_thresh_dB = 0 /\ loudness_stats = NoStats
    /\ AtempoIdle /\ UnitIdle
    /\ pc = "plan_input"

\* lines 151-152: each source is merged on its own; the two lists, joined, are
\* the first argument of the call of line 153, whose second argument is 100
\* and whose gap is the default
MergeSources ==
    /\ pc = "plan_input"
    /\ ranges' = MergedSources(silence_ranges, static_ranges, config)
    /\ min_duration_ms' = CombinedMinDurationMs
    /\ gap_ms' = DefaultGapMs
    /\ pc' = "sources_merged"
    /\ UNCHANGED <<merged, passes, job_vars, graph, atempo_vars, run_vars, clip_list,
                   audio_vars, unit_vars, app_vars>>

\* line 153: ranges_to_process = merge_and_optimize_ranges(..., 100)
MergeCombined ==
    /\ pc = "sources_merged"
    /\ merged' = merge_and_optimize_ranges(ranges, min_duration_ms, gap_ms)
    /\ ranges_to_process' = merged'
    /\ passes' = 1
    /\ pc' = "plan_merged"
    /\ UNCHANGED <<ranges, min_duration_ms, gap_ms, processing_mode, pre_cut_seconds,
                   post_cut_seconds, video_duration_ms, has_audio, config,
                   speedup_factor, speedup_volume, graph, atempo_vars, run_vars,
                   clip_list, audio_vars, unit_vars, app_vars>>

NextPlan == MergeSources \/ MergeCombined

SpecPlan == PlanInit /\ [][NextPlan]_vars

(* ---------------- properties of the combined plan ---------------------- *)

\* the instants of the time axis, every 10 ms
Instants == {10 * k : k \in 0..220}

Covers(rs, t) == \E i \in 1..Len(rs) : rs[i][1] <= t /\ t < rs[i][2]

\* C22: in the combined mode the second merge drops nothing: every instant
\* covered by the merged silence list or by the merged static list (together
\* the input of the second merge) is covered by the final plan, whatever the
\* configured minimum durations are.
C22_CombinedDropsNothing ==
    pc = "plan_merged" =>
        \A t \in Instants : Covers(ranges, t) => Covers(ranges_to_process, t)

(* ------------- order independence of the range merger ------------------ *)

Reverse(rs) == [i \in 1..Len(rs) |-> rs[Len(rs) + 1 - i]]

\* r comes before q when its start is smaller, or the starts are equal and
\* its end is smaller
Before(r, q) == r[1] < q[1] \/ (r[1] = q[1] /\ r[2] < q[2])

\* the one arrangement all permutations of a list share: ascending by start,
\* then by end
RECURSIVE Arranged(_)
Arranged(rs) ==
    IF rs = <<>> THEN <<>>
    ELSE LET k == CHOOSE i \in 1..Len(rs) : \A j \in 1..Len(rs) : ~Before(rs[j], rs[i])
         IN  <<rs[k]>> \o Arranged(SubSeq(rs, 1, k - 1) \o SubSeq(rs, k + 1, Len(rs)))

\* C23: the output of merge_and_optimize_ranges does not depend on the order
\* of its input: the list as given, the list reversed and the list arranged
\* by start and end (the arrangement every permutation shares) give the same
\* output for the same min_duration and gap, ranges with equal starts included.
C23_MergeIgnoresInputOrder ==
    (pc = "merge" /\ passes = 1) =>
        /\ merged = merge_and_optimize_ranges(Arranged(ranges), min_duration_ms, gap_ms)
        /\ merged = merge_and_optimize_ranges(Reverse(ranges), min_duration_ms, gap_ms)

\* an input that is not sorted, with two ranges of the same start given with
\* the longer one first, and a non-empty output
C23_Witness ==
    /\ pc = "merge" /\ passes = 1
    /\ Len(ranges) = 3
    /\ ranges[1][1] > ranges[2][1]
    /\ ranges[2][1] = ranges[3][1] /\ ranges[2][2] > ranges[3][2]
    /\ merged # <<>>

(* ------------- segments of the remove and speed-up modes --------------- *)

\* the boundary the passthrough before plan range i starts from: 0, or the end
\* of the previous plan range
PreviousBoundary(plan, i) == IF i = 1 THEN 0 ELSE plan[i - 1][2]

\* the candidate passthrough intervals of the remove mode, in order: one before
\* each plan range, up to its start less the pre margin, and the tail
CutCandidates(plan, pre_ms, total) ==
    [i \in 1..(Len(plan) + 1) |->
        IF i <= Len(plan)
        THEN <<PreviousBoundary(plan, i), plan[i][1] - pre_ms>>
        ELSE <<PreviousBoundary(plan, i), total>>]

NonEmpty(iv) == iv[1] < iv[2]

Intersects(iv, r) == iv[1] < r[2] /\ r[1] < iv[2]

C25_PassthroughBetweenTransforms ==
    (pc = "chunk_built" /\ processing_mode = SPEEDUP) =>
        LET segs == Segments(graph)
            plan == ranges_to_process
            pre_ms == pre_cut_seconds * 1000
            post_ms == post_cut_seconds * 1000
        IN  /\ \A i \in 1..Len(plan) : \E k \in 1..Len(segs) :
                  /\ segs[k].kind = "TRANSFORM"
                  /\ segs[k].start = plan[i][1] - pre_ms
                  /\ segs[k].end = plan[i][2] + post_ms
                  /\ segs[k].factor = config.speedup_factor
            /\ \A k \in 2..Len(segs) :
                  (segs[k].kind = "PASSTHROUGH" /\ segs[k - 1].kind = "TRANSFORM") =>
                      /\ segs[k].start = segs[k - 1].end
                      /\ k < Len(segs) => segs[k].end = segs[k + 1].start

(* ------------------ calls on a _FFmpegFilterBuilder -------------------- *)

\* largest number of segments added to the builder under study
MaxSegments == 2
\* largest start or end, in ms, given to add_clip and add_speedup_clip
MaxClipTime == 2

BuilderInit ==
    /\ \E a \in BOOLEAN : builder = NewBuilder(a)
    /\ last_call = NoCall
    /\ VideoIdle /\ TaskIdle /\ BusyIdle
    /\ MergeIdle /\ JobIdle /\ AtempoIdle /\ AudioIdle
    /\ pc = "building"

\* one call of builder.add_clip(start_ms, end_ms)
AddClip ==
    /\ pc = "building"
    /\ \E s \in 0..MaxClipTime, e \in 0..MaxClipTime :
          /\ s < e => builder.stream_counter < MaxSegments
          /\ builder' = add_clip(builder, s, e)
          /\ last_call' = [kind |-> "add_clip", start_ms |-> s, end_ms |-> e]
    /\ UNCHANGED <<merge_vars, job_vars, graph, atempo_vars, run_vars, clip_list,
                   audio_vars, video_vars, task_vars, busy_vars, app_vars, pc>>

\* one call of builder.add_speedup_clip(start_ms, end_ms, factor, volume)
AddSpeedupClip ==
    /\ pc = "building"
    /\ \E s \in 0..MaxClipTime, e \in 0..MaxClipTime :
          /\ s < e => builder.stream_counter < MaxSegments
          /\ builder' = add_speedup_clip(builder, s, e, speedup_factor, speedup_volume)
          /\ last_call' = [kind |-> "add_speedup_clip", start_ms |-> s, end_ms |-> e]
    /\ UNCHANGED <<merge_vars, job_vars, graph, atempo_vars, run_vars, clip_list,
                   audio_vars, video_vars, task_vars, busy_vars, app_vars, pc>>

\* builder.build(), lines 112-127, called once after the last segment: the
\* concat nodes are appended to the builder's own filter lists, which are
\* joined to the two graphs
Build ==
    /\ pc = "building"
    /\ graph' = build(builder)
    /\ builder' = [builder EXCEPT !.video_filters = IF builder.stream_counter = 0 THEN @
                                                    ELSE graph'.video_fc,
                                  !.audio_filters = IF graph'.audio_fc = <<>> THEN @
                                                    ELSE graph'.audio_fc]
    /\ last_call' = [kind |-> "build", start_ms |-> 0, end_ms |-> 0]
    /\ pc' = "built"
    /\ UNCHANGED <<merge_vars, job_vars, atempo_vars, run_vars, clip_list,
                   audio_vars, video_vars, task_vars, busy_vars, app_vars>>

NextBuilder == AddClip \/ AddSpeedupClip \/ Build

SpecBuilder == BuilderInit /\ [][NextBuilder]_vars

(* ---------------------- properties of the builder ---------------------- *)

Degenerate(call) == call.kind \in {"add_clip", "add_speedup_clip"} /\ call.start_ms >= call.end_ms

ProperSegments(filters) == \A k \in 1..Len(filters) : filters[k].kind # "CONCAT" => filters[k].start < filters[k].end

\* C26: a call of add_clip or add_speedup_clip with start >= end leaves the
\* builder as it was (segment counter, video and audio segment lists,
\* concatenation inputs), and every segment of the builder has start < end.
C26_DegenerateSegmentsDropped ==
    [][/\ Degenerate(last_call') => builder' = builder
       /\ ProperSegments(builder'.video_filters)
       /\ ProperSegments(builder'.audio_filters)]_vars

\* add_speedup_clip was called with start >= end on a builder with audio that
\* already holds two segments
C26_Witness ==
    /\ pc = "building"
    /\ last_call.kind = "add_speedup_clip" /\ Degenerate(last_call)
    /\ builder.has_audio /\ builder.stream_counter = 2
    /\ Len(builder.audio_filters) = 2

(* ------------------ order of the external steps ------------------------ *)

\* the external steps of FAST_PATH for a source with or without audio
StepsOf(audio) == IF audio THEN <<"video", "audio", "mux">> ELSE <<"video", "mux">>

\* C27: on FAST_PATH the external steps run one after another in the order
\* video pass, audio pass (only for a source with audio), mux: every step but
\* the last one run has ended successfully, so the mux never runs before the
\* video pass and the audio pass have succeeded and nothing runs after a
\* failed step.
C27_StepsInSequence ==
    /\ Len(ffmpeg_runs) <= Len(StepsOf(has_audio))
    /\ \A i \in 1..Len(ffmpeg_runs) :
          /\ ffmpeg_runs[i][1] = StepsOf(has_audio)[i]
          /\ i < Len(ffmpeg_runs) => ffmpeg_runs[i][2] = "ok"
    /\ ffmpeg_runs # <<>> => Occurs(history, "FAST_PATH")

\* a source with audio whose three steps ran and succeeded
C27_Witness ==
    /\ has_audio
    /\ Len(ffmpeg_runs) = 3
    /\ ffmpeg_runs[3] = <<"mux", "ok">>
    /\ pc = "end"

(* ------------------- business_logic.analyze_media ---------------------- *)

\* audio_tools.analyze_audio_dB, line 26, and video_tools.analyze_video_motion,
\* line 80: the strides of the progress reports
AUDIO_REPORT_STRIDE == 20
VIDEO_REPORT_STRIDE == 30

\* the chunks of the extracted audio and the frames of the video
MaxAudioChunks == 21
MaxVideoFrames == 30

\* business_logic.progress_wrapper, lines 50-55: a report of (value, maximum)
\* becomes base_progress + (value / maximum) * total_range of 100, with the
\* name of the task; the value is kept as a fraction
progress_wrapper(base_progress, total_range, task_name, value, maximum) == [value |-> <<base_progress * maximum + value * total_range, maximum>>, maximum |-> 100, label |-> task_name]

\* line 67: progress_callback(100, 100, "analysis complete")
CompleteReport == [value |-> <<100, 1>>, maximum |-> 100, label |-> "complete"]

\* a mutant of BothFinished: only the audio future is waited for
AudioFinished(fa, fv) == fa # "none"

\* line 62: future_audio.result(), future_video.result() (and the end of the
\* with block, line 59) return once both tasks have returned
BothFinished(fa, fv) == fa # "none" /\ fv # "none"

AnalyzeInit ==
    /\ TaskIdle /\ VideoIdle /\ BuilderIdle /\ BusyIdle
    /\ MergeIdle /\ JobIdle /\ AtempoIdle /\ AudioIdle
    /\ pc = "analyze_media"

\* lines 59-61: both tasks are submitted to a pool of two workers
SubmitTasks ==
    /\ pc = "analyze_media"
    /\ audio_task' = [at |-> "running", i |-> 0]
    /\ video_task' = [at |-> "running", i |-> 0]
    /\ pc' = "waiting"
    /\ UNCHANGED <<merge_vars, job_vars, graph, atempo_vars, run_vars, audio_vars, video_vars,
                   builder_vars, busy_vars, clip_list, app_vars, future_audio, future_video, progress_log>>

\* _analyze_audio_task, lines 83-96, at its start: without ffmpeg (line 85) the
\* floor values are returned, without an audio track (line 96) they are
\* returned after a report of (1, 1)
AudioSkip ==
    /\ audio_task = [at |-> "running", i |-> 0]
    /\ \E why \in {"no_ffmpeg", "no_audio"} :
          /\ future_audio' = why
          /\ progress_log' = IF why = "no_audio"
                             THEN Append(progress_log, progress_wrapper(0, 50, "audio", 1, 1))
                             ELSE progress_log
    /\ audio_task' = [audio_task EXCEPT !.at = "done"]
    /\ UNCHANGED <<merge_vars, job_vars, graph, atempo_vars, run_vars, audio_vars, video_vars,
                   builder_vars, busy_vars, clip_list, app_vars, video_task, future_video, pc>>

\* audio_tools.analyze_audio_dB, lines 23-27: one chunk; every twentieth chunk
\* is reported as (i, len(chunks))
AudioChunk ==
    /\ audio_task.at = "running" /\ audio_task.i < MaxAudioChunks
    /\ progress_log' = IF audio_task.i % AUDIO_REPORT_STRIDE = 0
                       THEN Append(progress_log, progress_wrapper(0, 50, "audio", audio_task.i, MaxAudioChunks))
                       ELSE progress_log
    /\ audio_task' = [audio_task EXCEPT !.i = @ + 1]
    /\ UNCHANGED <<merge_vars, job_vars, graph, atempo_vars, run_vars, audio_vars, video_vars,
                   builder_vars, busy_vars, clip_list, app_vars, video_task, future_audio, future_video, pc>>

\* _analyze_audio_task, lines 92-93 and 97-98: the task returns its summary
\* after the last chunk, or the exception it caught at any point
AudioReturn ==
    /\ audio_task.at = "running"
    /\ \E ret \in {"audio_summary", "exception"} :
          /\ ret = "audio_summary" => audio_task.i = MaxAudioChunks
          /\ future_audio' = ret
    /\ audio_task' = [audio_task EXCEPT !.at = "done"]
    /\ UNCHANGED <<merge_vars, job_vars, graph, atempo_vars, run_vars, audio_vars, video_vars,
                   builder_vars, busy_vars, clip_list, app_vars, video_task, future_video, progress_log, pc>>

\* video_tools.analyze_video_motion, lines 78-81: one frame pair; the frame
\* numbers start at 1 and every thirtieth is reported as (i, frame_count)
VideoFrame ==
    /\ video_task.at = "running" /\ video_task.i < MaxVideoFrames
    /\ LET i == video_task.i + 1
       IN  /\ progress_log' = IF i % VIDEO_REPORT_STRIDE = 0
                              THEN Append(progress_log, progress_wrapper(50, 50, "video", i, MaxVideoFrames))
                              ELSE progress_log
           /\ video_task' = [video_task EXCEPT !.i = i]
    /\ UNCHANGED <<merge_vars, job_vars, graph, atempo_vars, run_vars, audio_vars, video_vars,
                   builder_vars, busy_vars, clip_list, app_vars, audio_task, future_audio, future_video, pc>>

\* _analyze_video_task, lines 103-111: the task returns its summary after the
\* last frame, the zero summary of a capture that cannot be opened
\* (video_tools line 73), or the exception it caught at any point
VideoReturn ==
    /\ video_task.at = "running"
    /\ \E ret \in {"video_summary", "not_opened", "exception"} :
          /\ ret = "video_summary" => video_task.i = MaxVideoFrames
          /\ ret = "not_opened" => video_task.i = 0
          /\ future_video' = ret
    /\ video_task' = [video_task EXCEPT !.at = "done"]
    /\ UNCHANGED <<merge_vars, job_vars, graph, atempo_vars, run_vars, audio_vars, video_vars,
                   builder_vars, busy_vars, clip_list, app_vars, audio_task, future_audio, progress_log, pc>>

\* lines 62-71: the results of both futures are taken; an exception among them
\* gives AnalysisResult(error=e), otherwise the completion is reported and the
\* result holds both summaries
JoinTasks ==
    /\ pc = "waiting"
    /\ BothFinished(future_audio, future_video)
    /\ analysis_result' = analyze_media(future_audio, future_video)
    /\ progress_log' = IF analysis_result'.error = "none"
                       THEN Append(progress_log, CompleteReport)
                       ELSE progress_log
    /\ pc' = "returned"
    /\ UNCHANGED <<merge_vars, job_vars, graph, atempo_vars, run_vars, audio_vars, video_vars,
                   builder_vars, busy_vars, clip_list, is_processing, app_log, cut_mode, static_ranges, ui_busy,
                   audio_task, video_task, future_audio, future_video>>

NextAnalyze ==
    \/ SubmitTasks
    \/ AudioSkip
    \/ AudioChunk
    \/ AudioReturn
    \/ VideoFrame
    \/ VideoReturn
    \/ JoinTasks

SpecAnalyze == AnalyzeInit /\ [][NextAnalyze]_vars

(* ------------------- properties of analyze_media ----------------------- *)

Completed == \E k \in 1..Len(progress_log) : progress_log[k] = CompleteReport

\* once analyze_media has returned: both tasks are done, the result holds the
\* value each task returned, and the completion was reported if and only if
\* neither task failed
ReturnedAfterBoth ==
    pc = "returned" =>
       /\ audio_task.at = "done" /\ video_task.at = "done"
       /\ IF future_audio = "exception" \/ future_video = "exception"
          THEN /\ analysis_result.error = "exception"
               /\ ~Completed
          ELSE /\ analysis_result.error = "none"
               /\ analysis_result.audio_data = future_audio
               /\ analysis_result.video_data = future_video
               /\ Completed

\* the completion is the last report and is made by the return only
CompletionIsLast ==
    /\ Completed => pc = "returned"
    /\ \A k \in 1..Len(progress_log) :
          progress_log[k] = CompleteReport => k = Len(progress_log)

\* a step of one task leaves the other task and its future alone
TasksAreSeparate ==
    /\ (audio_task' # audio_task \/ future_audio' # future_audio) /\ pc # "analyze_media"
          => video_task' = video_task /\ future_video' = future_video
    /\ (video_task' # video_task \/ future_video' # future_video) /\ pc # "analyze_media"
          => audio_task' = audio_task /\ future_audio' = future_audio

\* C28: analyze_media runs the audio and the video analysis as two tasks that
\* change no state of each other; in every interleaving it returns only after
\* both have finished, the result holds the summary each task computed, and
\* the report of completion (100 of 100) comes after both have finished and
\* only when neither failed.
C28_AnalysisJoinsBothTasks == [](ReturnedAfterBoth /\ CompletionIsLast) /\ [][TasksAreSeparate]_vars

\* both tasks reported progress, the video task finished first with its last
\* frame reported as 100 of 100, and the analysis returned both summaries
C28_Witness ==
    /\ pc = "returned"
    /\ analysis_result.audio_data = "audio_summary"
    /\ analysis_result.video_data = "video_summary"
    /\ \E j, k \in 1..Len(progress_log) :
          /\ j < k
          /\ progress_log[j].label = "video" /\ progress_log[j].value = <<3000, 30>>
          /\ progress_log[k].label = "audio"

(* --------------------- the context of the render ----------------------- *)

\* the positions between the confirmation of the settings and the end of
\* start_processing_task
Rendering == pc \notin {"idle", "analysis", "analysis_done", "window", "finished"}

\* C29: the render is dispatched to a background worker and never executes in
\* the context of the event handler: from the confirmation of the settings to
\* the end of the render job the handler context is free for other events.
C29_RenderOffTheUiContext == Rendering => ~ui_busy

(* ------------------ the transform of the two paths --------------------- *)

Transforms(seq) == SelectSeq(seq, LAMBDA f : f.kind = "TRANSFORM")

\* the transform segments of SAFE_PATH use the arguments of the job
SafePathUsesArguments ==
    \A k \in 1..Len(Transforms(clip_list)) :
       /\ Transforms(clip_list)[k].factor = speedup_factor
       /\ Transforms(clip_list)[k].volume = speedup_volume

\* the transform segments of FAST_PATH use the arguments of the job
FastPathUsesArguments ==
    /\ \A k \in 1..Len(Transforms(graph.video_fc)) :
          Transforms(graph.video_fc)[k].factor = speedup_factor
    /\ \A k \in 1..Len(Transforms(graph.audio_fc)) :
          /\ Transforms(graph.audio_fc)[k].atempo = build_atempo_chain(speedup_factor)
          /\ Transforms(graph.audio_fc)[k].volume = Format4(speedup_volume)

\* C30: in both paths every speed-up segment is transformed with the
\* speedup_factor and the speedup_volume given to cut_or_speedup_video,
\* whatever the configuration dictionary holds.
C30_PathsUseTheArguments == SafePathUsesArguments /\ FastPathUsesArguments

(* ------------------ the segments of the two paths ---------------------- *)

\* kind, start and end of every segment of a list, in order
Outline(seq) == [k \in 1..Len(seq) |-> <<seq[k].kind, seq[k].start, seq[k].end>>]

\* C31: both paths follow one margin policy: the clips SAFE_PATH prepares
\* are, in kind, start and end and in order, the segments the FAST_PATH
\* builder emits for the same job.
C31_PathsEmitTheSameSegments ==
    (graph.stream_count > 0 /\ clip_list # <<>>) =>
        Outline(clip_list) = Outline(Segments(graph))

(* ------------------ video_tools: the capture handles ------------------- *)

\* the frames a source holds: none, only the first one, two, and enough for
\* the first progress report of the analyzer
FrameCounts == {0, 1, 2, MaxVideoFrames + 1}

\* everything but the capture handles
beside_handles == <<merge_vars, job_vars, graph, atempo_vars, run_vars, clip_list, audio_vars, task_vars, builder_vars, busy_vars, app_vars, motion_diffs, fps, total_frames, movement_thresh>>

HandlesInit ==
    /\ video_call \in {"analyze_video_motion", "detect_central_static_frames"}
    /\ frames_left \in FrameCounts
    /\ probe_handle = "none" /\ frame_handle = "none" /\ frames_read = 0
    /\ motion_diffs = <<>> /\ fps = <<30, 1>> /\ total_frames = 0 /\ movement_thresh = 0
    /\ TaskIdle /\ BuilderIdle /\ BusyIdle
    /\ MergeIdle /\ JobIdle /\ AtempoIdle /\ AudioIdle
    /\ pc = "call"

\* analyze_video_motion lines 72-73, detect_central_static_frames lines 94-95:
\* the function creates a capture; when it is not opened the function returns
OpenProbe ==
    /\ pc = "call"
    /\ \E opened \in BOOLEAN :
          IF opened
          THEN probe_handle' = "open" /\ pc' = "probe"
          ELSE probe_handle' = "unopened" /\ pc' = "returned"
    /\ UNCHANGED <<beside_handles, video_call, frame_handle, frames_left, frames_read>>

\* lines 74-75 and 96-99: the properties are read and the capture is released
ReleaseProbe ==
    /\ pc = "probe"
    /\ probe_handle' = "released"
    /\ pc' = "iterate"
    /\ UNCHANGED <<beside_handles, video_call, frame_handle, frames_left, frames_read>>

\* _iterate_frames_for_diff lines 36-39, at the first next() of the for loop
\* (lines 78 and 106): the iterator creates its own capture; when it is not
\* opened the iterator ends
OpenFrames ==
    /\ pc = "iterate"
    /\ \E opened \in BOOLEAN :
          IF opened
          THEN frame_handle' = "open" /\ pc' = "first_read"
          ELSE frame_handle' = "unopened" /\ pc' = "loop_done"
    /\ UNCHANGED <<beside_handles, video_call, probe_handle, frames_left, frames_read>>

\* lines 41-47 and 61-63: the first frame; without one the iterator returns, an
\* error of the conversion leaves the try block, in both cases through finally
FirstRead ==
    /\ pc = "first_read"
    /\ IF frames_left = 0
       THEN /\ frame_handle' = "released" /\ pc' = "loop_done"
            /\ UNCHANGED frames_left
       ELSE /\ frames_left' = frames_left - 1
            /\ \E fails \in BOOLEAN :
                  IF fails
                  THEN frame_handle' = "released" /\ pc' = "raised"
                  ELSE frame_handle' = frame_handle /\ pc' = "read"
    /\ UNCHANGED <<beside_handles, video_call, probe_handle, frames_read>>

\* lines 50-59 and 61-63: the next frame; without one the loop breaks and
\* finally releases the capture, an error of the conversion does the same,
\* otherwise the iterator is suspended at the yield with its capture open
ReadFrame ==
    /\ pc = "read"
    /\ IF frames_left = 0
       THEN /\ frame_handle' = "released" /\ pc' = "loop_done"
            /\ UNCHANGED <<frames_left, frames_read>>
       ELSE /\ frames_left' = frames_left - 1
            /\ frames_read' = frames_read + 1
            /\ \E fails \in BOOLEAN :
                  IF fails
                  THEN frame_handle' = "released" /\ pc' = "raised"
                  ELSE frame_handle' = frame_handle /\ pc' = "body"
    /\ UNCHANGED <<beside_handles, video_call, probe_handle>>

\* analyze_video_motion lines 80-81: every thirtieth frame is reported to
\* progress_callback; detect_central_static_frames calls nothing in its loop
CallbackCalled(call, i) == call = "analyze_video_motion" /\ i % VIDEO_REPORT_STRIDE = 0

\* the body of the for loop (lines 79-81, lines 107-118): when the callback
\* raises, the for loop is left while the iterator is suspended at its yield;
\* nothing closes the iterator
LoopBody ==
    /\ pc = "body"
    /\ \E raises \in BOOLEAN :
          /\ raises => CallbackCalled(video_call, frames_read)
          /\ pc' = IF raises THEN "raised" ELSE "read"
    /\ UNCHANGED <<beside_handles, handle_vars>>

\* lines 83-85 and 120-126: the function returns
ReturnFromLoop ==
    /\ pc = "loop_done"
    /\ pc' = "returned"
    /\ UNCHANGED <<beside_handles, handle_vars>>

\* the suspended iterator is finalized when the last reference to it is
\* dropped: GeneratorExit is raised at the yield (line 59) and finally
\* (lines 62-63) releases the capture
FinalizeIterator ==
    /\ pc = "raised" /\ frame_handle = "open"
    /\ frame_handle' = "released"
    /\ UNCHANGED <<beside_handles, video_call, probe_handle, frames_left, frames_read, pc>>

NextHandles ==
    \/ OpenProbe
    \/ ReleaseProbe
    \/ OpenFrames
    \/ FirstRead
    \/ ReadFrame
    \/ LoopBody
    \/ ReturnFromLoop
    \/ FinalizeIterator

SpecHandles == HandlesInit /\ [][NextHandles]_vars

(* ------------------- properties of the capture handles ----------------- *)

NoOpenHandle == probe_handle # "open" /\ frame_handle # "open"

ReleasedOnReturn == pc = "returned" => NoOpenHandle

(* --------------------- gui: the is_processing flag --------------------- *)

\* the files the user drops
MaxPaths == 3
Paths == 1..MaxPaths

\* a mutant of on_drop: the flag is not looked at
OnDropUnguarded(flag, current, dropped, exists) == IF exists THEN [file_path |-> dropped, is_processing |-> TRUE, submit |-> TRUE] ELSE [file_path |-> dropped, is_processing |-> flag, submit |-> FALSE]

\* gui.on_drop, lines 109-121: with the flag set the handler returns at once;
\* otherwise self.file_path is set (line 115) and, when the file exists, the
\* flag is set and run_analysis_task is submitted to the executor
on_drop(flag, current, dropped, exists) == IF flag THEN [file_path |-> current, is_processing |-> flag, submit |-> FALSE] ELSE IF exists THEN [file_path |-> dropped, is_processing |-> TRUE, submit |-> TRUE] ELSE [file_path |-> dropped, is_processing |-> flag, submit |-> FALSE]

\* a mutant of FlagAfterTask: the flag is cleared only when process_video
\* returns
FlagAfterTaskNoFinally(outcome) == outcome = "raised"

\* gui.start_processing_task, lines 144-145: finally: self.is_processing = False
FlagAfterTask(outcome) == FALSE

\* how process_video ends: the plan is empty (line 155), the job is done or
\* has failed, an exception is caught inside (lines 170-173), an exception
\* leaves it and is caught by start_processing_task (lines 141-143)
TaskOutcomes == {"empty_plan", "done", "failed", "caught", "raised"}

\* everything but the state of the application
beside_busy == <<merge_vars, job_vars, graph, atempo_vars, run_vars, clip_list, audio_vars, video_vars, task_vars, builder_vars, app_log, cut_mode, static_ranges>>

BusyInit ==
    /\ BusyIdle
    /\ VideoIdle /\ TaskIdle /\ BuilderIdle
    /\ RunIdle /\ AppIdle /\ MergeIdle /\ JobIdle /\ AtempoIdle /\ AudioIdle
    /\ graph = NoGraph
    /\ pc = "idle"

\* a drop event, handled when the interface thread is free
DropFile ==
    /\ ~ui_busy
    /\ \E dropped \in Paths, exists \in BOOLEAN :
          LET r == on_drop(is_processing, file_path, dropped, exists)
          IN  /\ file_path' = r.file_path
              /\ is_processing' = r.is_processing
              /\ active_jobs' = IF r.submit THEN active_jobs + 1 ELSE active_jobs
              /\ pc' = IF r.submit THEN "analysis" ELSE pc
              /\ last_event' = IF is_processing THEN "drop_ignored"
                               ELSE IF r.submit THEN "drop_accepted" ELSE "drop_missing"
    /\ UNCHANGED <<beside_busy, analysis_result, ui_busy>>

\* gui.run_analysis_task, lines 123-126, in the worker of the executor:
\* analyze_media returns a result with or without error, on_analysis_complete
\* is posted to the interface thread and the task ends
RunAnalysisTask ==
    /\ pc = "analysis"
    /\ \E audio_ret \in {"data", "empty", "exception"}, video_ret \in {"data", "exception"} :
          analysis_result' = analyze_media(audio_ret, video_ret)
    /\ active_jobs' = active_jobs - 1
    /\ last_event' = "analysis_posted"
    /\ pc' = "analysis_done"
    /\ UNCHANGED <<beside_busy, file_path, is_processing, ui_busy>>

\* gui.on_analysis_complete, lines 128-135
AnalysisComplete ==
    /\ pc = "analysis_done" /\ ~ui_busy
    /\ IF analysis_result.error # "none"
       THEN /\ is_processing' = FALSE
            /\ last_event' = "analysis_error"
            /\ pc' = "idle"
       ELSE /\ is_processing' = is_processing
            /\ last_event' = "window_opened"
            /\ pc' = "window"
    /\ UNCHANGED <<beside_busy, file_path, active_jobs, analysis_result, ui_busy>>

\* ThresholdWindow.on_close, lines 293-297
CloseWindow ==
    /\ pc = "window" /\ ~ui_busy
    /\ is_processing' = FALSE
    /\ last_event' = "window_closed"
    /\ pc' = "idle"
    /\ UNCHANGED <<beside_busy, file_path, active_jobs, analysis_result, ui_busy>>

\* ThresholdWindow.execute_processing, lines 317-331: a field that is not a
\* number gives the input error box and the handler returns
ExecuteInvalid ==
    /\ pc = "window" /\ ~ui_busy
    /\ last_event' = "input_error"
    /\ UNCHANGED <<beside_busy, file_path, active_jobs, analysis_result, ui_busy,
                   is_processing, pc>>

\* ThresholdWindow.execute_processing, lines 333-336, and
\* start_processing_task, lines 137-140: process_video is called in the handler
ExecuteValid ==
    /\ pc = "window" /\ ~ui_busy
    /\ ui_busy' = TRUE
    /\ active_jobs' = active_jobs + 1
    /\ last_event' = "process_video"
    /\ pc' = "render"
    /\ UNCHANGED <<beside_busy, file_path, analysis_result, is_processing>>

\* start_processing_task, lines 141-146, and execute_processing line 337:
\* process_video has ended, the flag is cleared, the window is destroyed and
\* the handler returns
TaskEnds ==
    /\ pc = "render"
    /\ \E outcome \in TaskOutcomes :
          /\ is_processing' = FlagAfterTask(outcome)
          /\ last_event' = outcome
    /\ active_jobs' = active_jobs - 1
    /\ ui_busy' = FALSE
    /\ pc' = "idle"
    /\ UNCHANGED <<beside_busy, file_path, analysis_result>>

NextBusy ==
    \/ DropFile
    \/ RunAnalysisTask
    \/ AnalysisComplete
    \/ CloseWindow
    \/ ExecuteInvalid
    \/ ExecuteValid
    \/ TaskEnds

SpecBusy == BusyInit /\ [][NextBusy]_vars

\* the worker runs the submitted task, the interface thread handles the
\* posted completion and finishes the handler it is in, and the user closes
\* or executes the settings window at some time
SpecBusyFair ==
    /\ SpecBusy
    /\ WF_vars(RunAnalysisTask)
    /\ WF_vars(AnalysisComplete)
    /\ WF_vars(CloseWindow \/ ExecuteValid)
    /\ WF_vars(TaskEnds)

(* ------------------ properties of the is_processing flag --------------- *)

\* at most one job is active, and while a job is active, the completion of an
\* analysis is pending or the settings window is open, the flag is set
OneJobAtATime ==
    /\ active_jobs <= 1
    /\ is_processing <=> pc \in {"analysis", "analysis_done", "window", "render"}
    /\ active_jobs = 1 <=> pc \in {"analysis", "render"}

\* a drop received while the flag is set is ignored and changes nothing
BusyDropIgnored ==
    /\ (is_processing /\ last_event' \in {"drop_accepted", "drop_missing"}) => last_event = last_event'
    /\ (last_event' = "drop_ignored" /\ last_event # "drop_ignored") =>
          /\ is_processing /\ is_processing'
          /\ file_path' = file_path
          /\ active_jobs' = active_jobs
          /\ analysis_result' = analysis_result
          /\ pc' = pc

DropAccepted == \A p \in Paths : on_drop(is_processing, file_path, p, TRUE).submit

\* C34: the flag does not stay set for ever: after every accepted drop, when
\* the user closes or executes the settings window at some time, the flag is
\* cleared again, whether the analysis fails, the plan is empty, the render
\* succeeds or fails or process_video raises; a drop is accepted then.
C34_FlagIsCleared == (is_processing ~> (~is_processing /\ DropAccepted))

\* the flag was cleared after process_video raised
C34_Witness == pc = "idle" /\ last_event = "raised" /\ ~is_processing /\ file_path \in Paths

(* ------------------- the signals of a render job ----------------------- *)

\* the success box and the error boxes shown so far
TerminalSignals == {i \in 1..Len(signals) : signals[i] \in {"INFO_DONE"} \cup ErrorSignals}

\* C35: a render job that has ended has shown exactly one terminal signal to
\* the user, the success signal or an error signal, for every plan, mode and
\* margin and every pattern of failures of the external tool and the encoders.
C35_ExactlyOneTerminalSignal == pc = "end" => Cardinality(TerminalSignals) = 1

\* a job that has ended has never shown two terminal signals
AtMostOneTerminalSignal == Cardinality(TerminalSignals) <= 1

(* --------------------- the estimate and the graph ---------------------- *)

\* the segments of the audio graph: its filters without the concat node
AudioSegments(g) == SelectSeq(g.audio_fc, LAMBDA f : f.kind # "CONCAT")

Contains(outer, inner) == outer[1] <= inner[1] /\ inner[2] <= outer[2]

\* the output ranges that contain input range r
Holders(r) == {k \in 1..Len(merged) : Contains(merged[k], r)}

\* the accumulated ranges of the merge, before the test of their duration
Accumulated == merge_and_optimize_ranges(ranges, 0, gap_ms)

\* the accumulated range input range r was merged into is shorter than the
\* minimum duration
InShortRange(r) ==
    \E k \in 1..Len(Accumulated) :
       /\ Contains(Accumulated[k], r)
       /\ Accumulated[k][2] - Accumulated[k][1] < min_duration_ms

\* C37: the merge invents no boundary and loses no long range: every output
\* range starts at the start of an input range, ends at the end of an input
\* range and contains an input range, and every input range lies in exactly
\* one output range unless the accumulated range it was merged into is
\* shorter than min_duration, in which case it lies in none.
C37_MergeKeepsBoundaries ==
    passes >= 1 =>
       /\ \A k \in 1..Len(merged) :
             /\ \E i \in 1..Len(ranges) : ranges[i][1] = merged[k][1]
             /\ \E i \in 1..Len(ranges) : ranges[i][2] = merged[k][2]
             /\ \E i \in 1..Len(ranges) : Contains(merged[k], ranges[i])
       /\ \A i \in 1..Len(ranges) :
             IF InShortRange(ranges[i])
             THEN Holders(ranges[i]) = {}
             ELSE Cardinality(Holders(ranges[i])) = 1

\* two input ranges were merged into one output range that is longer than
\* each of them, and a third one was lost with its short accumulated range
C37_Witness ==
    /\ passes = 1
    /\ \E k \in 1..Len(merged) :
          /\ Cardinality({i \in 1..Len(ranges) : Contains(merged[k], ranges[i])}) >= 2
          /\ \A i \in 1..Len(ranges) : ranges[i] # merged[k]
    /\ \E i \in 1..Len(ranges) : Holders(ranges[i]) = {} /\ InShortRange(ranges[i])

(* ------------------- the bookkeeping of the builder -------------------- *)

NotConcat(filters) == SelectSeq(filters, LAMBDA f : f.kind # "CONCAT")

\* the labels 0, 1, .., n-1 in this order
LabelsUpTo(n) == [k \in 1..n |-> k - 1]

Labels(filters) == [k \in 1..Len(filters) |-> filters[k].label]

ConcatNode(n) == [kind |-> "CONCAT", inputs |-> LabelsUpTo(n), n |-> n]

\* the segment lists agree with the stream counter and carry the labels in
\* the order of insertion; the last segment is the one of the last call
BuilderCounts ==
    LET n == builder.stream_counter
        v == NotConcat(builder.video_filters)
        a == NotConcat(builder.audio_filters)
    IN  /\ Len(v) = n
        /\ Len(a) = IF builder.has_audio THEN n ELSE 0
        /\ Labels(v) = LabelsUpTo(n)
        /\ builder.v_concat_inputs = LabelsUpTo(n)
        /\ builder.has_audio => Labels(a) = LabelsUpTo(n) /\ builder.a_concat_inputs = LabelsUpTo(n)
        /\ ~builder.has_audio => builder.a_concat_inputs = <<>>
        /\ (last_call.kind \in {"add_clip", "add_speedup_clip"} /\ ~Degenerate(last_call)) =>
              /\ v[n].start = last_call.start_ms /\ v[n].end = last_call.end_ms
              /\ v[n].kind = IF last_call.kind = "add_clip" THEN "PASSTHROUGH" ELSE "TRANSFORM"
              /\ builder.has_audio => a[n].start = v[n].start /\ a[n].end = v[n].end /\ a[n].kind = v[n].kind

\* build() joins the n segments in their order with one concat node for each
\* media type; without segments the graph is empty
BuiltGraph ==
    LET n == builder.stream_counter
    IN  pc = "built" =>
           /\ graph.stream_count = n
           /\ n = 0 => graph = NoGraph
           /\ n > 0 =>
                 /\ Segments(graph) = NotConcat(builder.video_filters)
                 /\ graph.video_fc = Append(Segments(graph), ConcatNode(n))
                 /\ graph.audio_fc = IF builder.has_audio
                                     THEN Append(NotConcat(builder.audio_filters), ConcatNode(n))
                                     ELSE <<>>

\* C38: after any sequence of add_clip and add_speedup_clip calls the stream
\* counter is the number of video segments, the audio list has as many
\* entries on a source with audio and none otherwise, the labels are 0..n-1 in
\* the order of insertion, and build() joins exactly these n segments in this
\* order with one concat node for each media type; a builder without segments
\* builds the empty graph with count 0.
C38_BuilderBookkeeping == BuilderCounts /\ BuiltGraph

\* a passthrough and a transform segment on a source with audio, built
C38_Witness ==
    /\ pc = "built" /\ builder.has_audio /\ graph.stream_count = 2
    /\ Segments(graph)[1].kind = "PASSTHROUGH" /\ Segments(graph)[2].kind = "TRANSFORM"
    /\ Len(graph.audio_fc) = 3

=============================================================================
